---- MODULE Spec2Model ----
(***************************************************************************)
(* Model of the react-control-flow components: the stateless rendering     *)
(* functions If, Show, Switch/Match/Default, For and Repeat, the           *)
(* ErrorBoundary class component with the React lifecycle that drives it,  *)
(* and the hook components Once, Visible and Await with the renders,       *)
(* effects and external events (observer notifications, settlements of     *)
(* thenables) that drive them.                                             *)
(***************************************************************************)
EXTENDS Integers, Sequences, FiniteSets, TLC

VARIABLES
    comp,       \* the component: "If", "Show", "Switch", "For", "Repeat",
                \* "ErrorBoundary", "Once", "Visible", "Await"
    props,      \* the props object the component is rendered with
    output,     \* function components: the value the render returned;
                \* ErrorBoundary: the committed output
    calls,      \* the callback invocations made so far, in order (the children
                \* callback of a function component, onError of ErrorBoundary,
                \* onVisibilityChange of Visible)
    pc,         \* stateless components: "ready" (not rendered yet), "done";
                \* stateful components: the step React takes next
    state,      \* ErrorBoundary: this.state; hook components: the values held
                \* by useState and useRef
    prevProps,  \* ErrorBoundary: the props of the last commit
    mounted,    \* a first commit has happened (and no unmount since)
    wip,        \* ErrorBoundary: the work-in-progress output of the running pass
    thrown,     \* ErrorBoundary: the value a descendant threw in the running pass
    didCapture, \* ErrorBoundary: the boundary captured a throw in the running pass
    pending,    \* a setState has been made that awaits its render
    trigger,    \* ErrorBoundary: what scheduled the running pass
    isSupported,\* Visible: the environment has window and IntersectionObserver
    ref,        \* Visible: ref.current is the wrapper element (FALSE: null)
    deps,       \* Visible: the dependency array of the last run of the observer effect
    observers,  \* Visible: the IntersectionObservers that observe an element
    cleanup,    \* Visible: the cleanup function returned by the observer effect
    thenables,  \* Await: the settlement state of each thenable of the environment
    jobs        \* Await: the reactions queued for delivery, oldest first

ebVars == <<state, prevProps, mounted, wip, thrown, didCapture, pending, trigger>>
visibleVars == <<isSupported, ref, deps, observers, cleanup>>
awaitVars == <<thenables, jobs>>
hostVars == <<visibleVars, awaitVars>>
vars == <<comp, props, output, calls, pc, state, prevProps, mounted, wip, thrown,
          didCapture, pending, trigger, isSupported, ref, deps, observers,
          cleanup, thenables, jobs>>

(***************************************************************************)
(* Bounds of the model.                                                    *)
(***************************************************************************)
MaxChildren == 3    \* longest list of children handed to a Switch
MaxLen == 3         \* longest `each` array handed to a For
MaxTimes == 3       \* largest |times| handed to a Repeat
MaxSiblings == 2    \* number of children of an ErrorBoundary
MaxCalls == 2       \* onError calls after which no further external event is taken
MaxVersions == 9    \* number of different elements a parent hands to Once
MaxNotifications == 2   \* onVisibilityChange calls after which no notification is taken
MaxThenables == 2   \* number of promises the environment creates for Await
MaxGenerations == 3 \* renders of Await with a new input after which the input is not replaced
MaxStringLen == 5   \* characters of the longest string handed to Split

(***************************************************************************)
(* JavaScript values.  A value is a record with its typeof tag and its     *)
(* payload; objects (arrays, plain objects, Error instances) are           *)
(* identified by a label.                                                  *)
(***************************************************************************)
JSUndefined == [t |-> "undefined", b |-> FALSE, n |-> 0, nan |-> FALSE, s |-> ""]
JSNull == [t |-> "null", b |-> FALSE, n |-> 0, nan |-> FALSE, s |-> ""]
JSBool(b) == [t |-> "boolean", b |-> b, n |-> 0, nan |-> FALSE, s |-> ""]
JSNum(n) == [t |-> "number", b |-> FALSE, n |-> n, nan |-> FALSE, s |-> ""]
JSNaN == [t |-> "number", b |-> FALSE, n |-> 0, nan |-> TRUE, s |-> ""]
JSStr(s) == [t |-> "string", b |-> FALSE, n |-> 0, nan |-> FALSE, s |-> s]
JSObj(label) == [t |-> "object", b |-> FALSE, n |-> 0, nan |-> FALSE, s |-> label]

FalsyValues == {JSNum(0), JSStr(""), JSNull, JSUndefined, JSNaN, JSBool(FALSE)}
TruthyValues == {JSBool(TRUE), JSNum(1), JSStr("a"), JSObj("[]"), JSObj("{}")}
ConditionValues == FalsyValues \cup TruthyValues

\* Mutant of ToBoolean: only null, undefined and false are treated as falsy.
ToBooleanNullish(v) ==
    ~(v.t = "undefined" \/ v.t = "null" \/ (v.t = "boolean" /\ ~v.b))

\* The truthiness test of `!condition`, `!when`, `if (when)`, `if (error)`.
ToBoolean(v) ==
    CASE v.t = "undefined" -> FALSE
      [] v.t = "null" -> FALSE
      [] v.t = "boolean" -> v.b
      [] v.t = "number" -> ~(v.n = 0 \/ v.nan)
      [] v.t = "string" -> v.s # ""
      [] OTHER -> TRUE

(***************************************************************************)
(* React nodes.  A node is nothing (null / undefined), an element named by *)
(* (id, i), or the result of calling the callback (id, i) with arguments.  *)
(***************************************************************************)
NodeUndefined == [k |-> "undefined", id |-> "", i |-> 0, args |-> <<>>]
NodeNull == [k |-> "null", id |-> "", i |-> 0, args |-> <<>>]
Elem(id, i) == [k |-> "elem", id |-> id, i |-> i, args |-> <<>>]
Result(id, i, args) == [k |-> "result", id |-> id, i |-> i, args |-> args]

\* A `children` (or `fallback`) prop: a ready-made node or a callback.
NodeProp(id, i) == [fn |-> FALSE, id |-> id, i |-> i]
FnProp(id, i) == [fn |-> TRUE, id |-> id, i |-> i]

\* What a render returns: the value and the callback invocations it made.
Returned(out, cs) == [out |-> out, calls |-> cs]
Invocation(c, args) == [id |-> c.id, i |-> c.i, args |-> args]

\* `fallback = null` in the parameter list: only undefined takes the default.
DefaultNull(node) == IF node.k = "undefined" THEN NodeNull ELSE node

(***************************************************************************)
(* If and Show.                                                            *)
(***************************************************************************)
\* Mutant of If: the callback is evaluated before the condition is tested.
IfEager(p) ==
    IF p.children.fn
        THEN LET r == Result(p.children.id, p.children.i, <<p.condition>>)
                 cs == <<Invocation(p.children, <<p.condition>>)>>
             IN  IF ~ToBoolean(p.condition)
                     THEN Returned(DefaultNull(p.fallback), cs)
                     ELSE Returned(r, cs)
        ELSE IF ~ToBoolean(p.condition)
                 THEN Returned(DefaultNull(p.fallback), <<>>)
                 ELSE Returned(Elem(p.children.id, p.children.i), <<>>)

\* Mutant of If: the callback is called without the condition value.
IfCallsBare(p) ==
    IF ~ToBoolean(p.condition)
        THEN Returned(DefaultNull(p.fallback), <<>>)
        ELSE IF p.children.fn
                 THEN Returned(Result(p.children.id, p.children.i, <<>>),
                               <<Invocation(p.children, <<>>)>>)
                 ELSE Returned(Elem(p.children.id, p.children.i), <<>>)

If(p) ==
    IF ~ToBoolean(p.condition)
        THEN Returned(DefaultNull(p.fallback), <<>>)
        ELSE IF p.children.fn
                 THEN Returned(Result(p.children.id, p.children.i, <<p.condition>>),
                               <<Invocation(p.children, <<p.condition>>)>>)
                 ELSE Returned(Elem(p.children.id, p.children.i), <<>>)

Show(p) ==
    IF ~ToBoolean(p.when)
        THEN Returned(DefaultNull(p.fallback), <<>>)
        ELSE IF p.children.fn
                 THEN Returned(Result(p.children.id, p.children.i, <<p.when>>),
                               <<Invocation(p.children, <<p.when>>)>>)
                 ELSE Returned(Elem(p.children.id, p.children.i), <<>>)

ChildrenProps == {NodeProp("children", 0), FnProp("children", 0)}
FallbackProps == {NodeUndefined, Elem("fallback", 0)}

IfPropsSet ==
    {[condition |-> c, children |-> ch, fallback |-> fb] :
        c \in ConditionValues, ch \in ChildrenProps, fb \in FallbackProps}

ShowPropsSet ==
    {[when |-> c, children |-> ch, fallback |-> fb] :
        c \in ConditionValues, ch \in ChildrenProps, fb \in FallbackProps}

RenderIf ==
    /\ pc = "ready"
    /\ comp = "If"
    /\ output' = If(props).out
    /\ calls' = If(props).calls
    /\ pc' = "done"
    /\ UNCHANGED <<comp, props>>
    /\ UNCHANGED <<ebVars, hostVars>>

RenderShow ==
    /\ pc = "ready"
    /\ comp = "Show"
    /\ output' = Show(props).out
    /\ calls' = Show(props).calls
    /\ pc' = "done"
    /\ UNCHANGED <<comp, props>>
    /\ UNCHANGED <<ebVars, hostVars>>

(***************************************************************************)
(* Switch, Match and Default.                                              *)
(***************************************************************************)
\* The children a Switch can be handed.  `isNull` is `child === null`,
\* `typeOf` is `typeof child`, `hasType` is `"type" in child`, `typeOfType`
\* is `typeof child.type`, `marks` are the static markers set on child.type.
SwitchChildNull ==
    [isNull |-> TRUE, typeOf |-> "object", hasType |-> FALSE, typeOfType |-> "undefined",
     marks |-> {}, props |-> [when |-> JSUndefined, children |-> NodeProp("", 0)]]
SwitchChildText(i) ==
    [isNull |-> FALSE, typeOf |-> "string", hasType |-> FALSE, typeOfType |-> "undefined",
     marks |-> {}, props |-> [when |-> JSUndefined, children |-> NodeProp("text", i)]]
SwitchChildDiv(i) ==
    [isNull |-> FALSE, typeOf |-> "object", hasType |-> TRUE, typeOfType |-> "string",
     marks |-> {}, props |-> [when |-> JSUndefined, children |-> NodeProp("div", i)]]
SwitchChildOther(when, i) ==
    [isNull |-> FALSE, typeOf |-> "object", hasType |-> TRUE, typeOfType |-> "function",
     marks |-> {}, props |-> [when |-> when, children |-> NodeProp("other", i)]]
MatchElement(when, fn, i) ==
    [isNull |-> FALSE, typeOf |-> "object", hasType |-> TRUE, typeOfType |-> "function",
     marks |-> {"__isMatch"},
     props |-> [when |-> when, children |-> [fn |-> fn, id |-> "match", i |-> i]]]
DefaultElement(i) ==
    [isNull |-> FALSE, typeOf |-> "object", hasType |-> TRUE, typeOfType |-> "function",
     marks |-> {"__isDefault"},
     props |-> [when |-> JSUndefined, children |-> NodeProp("default", i)]]

isMatchElement(child) ==
    /\ ~child.isNull
    /\ child.typeOf = "object"
    /\ child.hasType
    /\ child.typeOfType = "function"
    /\ "__isMatch" \in child.marks

isDefaultElement(child) ==
    /\ ~child.isNull
    /\ child.typeOf = "object"
    /\ child.hasType
    /\ child.typeOfType = "function"
    /\ "__isDefault" \in child.marks

\* Children.toArray(children): null children are dropped, the order is kept.
ChildrenToArray(children) == SelectSeq(children, LAMBDA c : ~c.isNull)

\* Mutant of SwitchScan: a truthy Match does not end the scan, so the last
\* truthy Match (or a later Default) wins.
RECURSIVE SwitchScanLast(_, _, _)
SwitchScanLast(childArray, j, defaultContent) ==
    IF j > Len(childArray)
        THEN Returned(defaultContent, <<>>)
        ELSE LET child == childArray[j]
                 matchChildren == child.props.children
             IN  IF isDefaultElement(child)
                        \/ (isMatchElement(child) /\ ToBoolean(child.props.when))
                     THEN SwitchScanLast(childArray, j + 1, Elem(matchChildren.id, matchChildren.i))
                     ELSE SwitchScanLast(childArray, j + 1, defaultContent)

\* Mutant of SwitchScan: a Default ends the scan like a Match that is true.
RECURSIVE SwitchScanDefaultEnds(_, _, _)
SwitchScanDefaultEnds(childArray, j, defaultContent) ==
    IF j > Len(childArray)
        THEN Returned(defaultContent, <<>>)
        ELSE LET child == childArray[j]
                 matchChildren == child.props.children
                 when == child.props.when
             IN  IF isDefaultElement(child)
                     THEN Returned(Elem(matchChildren.id, matchChildren.i), <<>>)
                     ELSE IF isMatchElement(child) /\ ToBoolean(when)
                              THEN IF matchChildren.fn
                                       THEN Returned(Result(matchChildren.id, matchChildren.i, <<when>>),
                                                     <<Invocation(matchChildren, <<when>>)>>)
                                       ELSE Returned(Elem(matchChildren.id, matchChildren.i), <<>>)
                              ELSE SwitchScanDefaultEnds(childArray, j + 1, defaultContent)

\* Mutant of SwitchScan: the scan goes on after the selected Match and calls
\* the callback of every later Match that is true.
RECURSIVE SwitchScanCallsAll(_, _, _)
SwitchScanCallsAll(childArray, j, defaultContent) ==
    IF j > Len(childArray)
        THEN Returned(defaultContent, <<>>)
        ELSE LET child == childArray[j]
                 matchChildren == child.props.children
                 when == child.props.when
                 rest == SwitchScanCallsAll(childArray, j + 1, defaultContent)
             IN  IF isDefaultElement(child)
                     THEN SwitchScanCallsAll(childArray, j + 1,
                                             Elem(matchChildren.id, matchChildren.i))
                     ELSE IF isMatchElement(child) /\ ToBoolean(when)
                              THEN IF matchChildren.fn
                                       THEN Returned(Result(matchChildren.id, matchChildren.i, <<when>>),
                                                     <<Invocation(matchChildren, <<when>>)>> \o rest.calls)
                                       ELSE Returned(Elem(matchChildren.id, matchChildren.i), rest.calls)
                              ELSE rest

\* The `for (const child of childArray)` loop of Switch, from position j on.
RECURSIVE SwitchScan(_, _, _)
SwitchScan(childArray, j, defaultContent) ==
    IF j > Len(childArray)
        THEN Returned(defaultContent, <<>>)
        ELSE LET child == childArray[j]
                 matchChildren == child.props.children
                 when == child.props.when
             IN  IF isDefaultElement(child)
                     THEN SwitchScan(childArray, j + 1, Elem(matchChildren.id, matchChildren.i))
                     ELSE IF isMatchElement(child) /\ ToBoolean(when)
                              THEN IF matchChildren.fn
                                       THEN Returned(Result(matchChildren.id, matchChildren.i, <<when>>),
                                                     <<Invocation(matchChildren, <<when>>)>>)
                                       ELSE Returned(Elem(matchChildren.id, matchChildren.i), <<>>)
                              ELSE SwitchScan(childArray, j + 1, defaultContent)

Switch(p) == SwitchScan(ChildrenToArray(p.children), 1, DefaultNull(p.fallback))

SwitchWhenValues == {JSBool(FALSE), JSNull, JSBool(TRUE), JSStr("a")}

\* The kinds of children a Switch is handed, and the child of each kind
\* that stands at position i.
SwitchChildKinds ==
    {[kind |-> k, when |-> JSBool(TRUE), fn |-> FALSE] :
         k \in {"null", "text", "div", "other", "Default"}}
        \cup {[kind |-> "Match", when |-> w, fn |-> fn] : w \in SwitchWhenValues, fn \in BOOLEAN}

SwitchChildAt(c, i) ==
    CASE c.kind = "null" -> SwitchChildNull
      [] c.kind = "text" -> SwitchChildText(i)
      [] c.kind = "div" -> SwitchChildDiv(i)
      [] c.kind = "other" -> SwitchChildOther(c.when, i)
      [] c.kind = "Default" -> DefaultElement(i)
      [] OTHER -> MatchElement(c.when, c.fn, i)

\* The props of a Switch whose children are of the kinds ks, in that order.
SwitchProps(ks, fb) ==
    [children |-> [i \in 1..Len(ks) |-> SwitchChildAt(ks[i], i)], fallback |-> fb]

RenderSwitch ==
    /\ pc = "ready"
    /\ comp = "Switch"
    /\ output' = Switch(props).out
    /\ calls' = Switch(props).calls
    /\ pc' = "done"
    /\ UNCHANGED <<comp, props>>
    /\ UNCHANGED <<ebVars, hostVars>>

(***************************************************************************)
(* For.                                                                    *)
(***************************************************************************)
ListOf(items) == [k |-> "list", items |-> items]
Fragment(key, child) == [key |-> key, child |-> child]
IndexKey(index) == [by |-> "index", args |-> <<JSNum(index)>>]
ExtractedKey(item, index) == [by |-> "keyExtractor", args |-> <<item, JSNum(index)>>]

\* `each`: null, undefined, or an array with its items.
EachNull == [v |-> JSNull, items |-> <<>>]
EachUndefined == [v |-> JSUndefined, items |-> <<>>]
EachArray(items) == [v |-> JSObj("array"), items |-> items]

\* Mutant of For: the key is always the index, the extractor is not consulted.
ForIndexKeys(p) ==
    IF ~ToBoolean(p.each.v) \/ Len(p.each.items) = 0
        THEN Returned(DefaultNull(p.fallback), <<>>)
        ELSE LET items == p.each.items
             IN  Returned(
                     ListOf([j \in 1..Len(items) |->
                         Fragment(IndexKey(j - 1),
                                  Result(p.children.id, p.children.i, <<items[j], JSNum(j - 1)>>))]),
                     [j \in 1..Len(items) |->
                         Invocation(p.children, <<items[j], JSNum(j - 1)>>)])

For(p) ==
    IF ~ToBoolean(p.each.v) \/ Len(p.each.items) = 0
        THEN Returned(DefaultNull(p.fallback), <<>>)
        ELSE LET items == p.each.items
                 key(j) == IF p.keyExtractor
                               THEN ExtractedKey(items[j], j - 1)
                               ELSE IndexKey(j - 1)
             IN  Returned(
                     ListOf([j \in 1..Len(items) |->
                         Fragment(key(j),
                                  Result(p.children.id, p.children.i, <<items[j], JSNum(j - 1)>>))]),
                     [j \in 1..Len(items) |->
                         Invocation(p.children, <<items[j], JSNum(j - 1)>>)])

ForItems == {JSStr("a"), JSStr("b")}

ForEachSet ==
    {EachNull, EachUndefined}
        \cup {EachArray(items) : items \in UNION {[1..n -> ForItems] : n \in 0..MaxLen}}

ForPropsSet ==
    {[each |-> e, children |-> FnProp("children", 0), keyExtractor |-> ke, fallback |-> fb] :
        e \in ForEachSet, ke \in BOOLEAN, fb \in FallbackProps}

RenderFor ==
    /\ pc = "ready"
    /\ comp = "For"
    /\ output' = For(props).out
    /\ calls' = For(props).calls
    /\ pc' = "done"
    /\ UNCHANGED <<comp, props>>
    /\ UNCHANGED <<ebVars, hostVars>>

(***************************************************************************)
(* Repeat.                                                                 *)
(***************************************************************************)
\* Mutant of RepeatLoop: the loop runs while i <= times.
RECURSIVE RepeatLoopInclusive(_, _, _, _)
RepeatLoopInclusive(p, i, elements, cs) ==
    IF i <= p.times
        THEN RepeatLoopInclusive(p, i + 1,
                 Append(elements, Fragment(IndexKey(i),
                                           Result(p.children.id, p.children.i, <<JSNum(i)>>))),
                 Append(cs, Invocation(p.children, <<JSNum(i)>>)))
        ELSE Returned(ListOf(elements), cs)

\* The `for (let i = 0; i < times; i++)` loop of Repeat.
RECURSIVE RepeatLoop(_, _, _, _)
RepeatLoop(p, i, elements, cs) ==
    IF i < p.times
        THEN RepeatLoop(p, i + 1,
                 Append(elements, Fragment(IndexKey(i),
                                           Result(p.children.id, p.children.i, <<JSNum(i)>>))),
                 Append(cs, Invocation(p.children, <<JSNum(i)>>)))
        ELSE Returned(ListOf(elements), cs)

Repeat(p) ==
    IF p.times <= 0
        THEN Returned(NodeNull, <<>>)
        ELSE RepeatLoop(p, 0, <<>>, <<>>)

\* `reverse` is a prop the caller may pass; Repeat destructures only
\* `times` and `children`.
RepeatPropsSet ==
    {[times |-> t, children |-> FnProp("children", 0), reverse |-> r] :
        t \in (0 - MaxTimes)..MaxTimes, r \in {JSUndefined, JSBool(FALSE), JSBool(TRUE)}}

RenderRepeat ==
    /\ pc = "ready"
    /\ comp = "Repeat"
    /\ output' = Repeat(props).out
    /\ calls' = Repeat(props).calls
    /\ pc' = "done"
    /\ UNCHANGED <<comp, props>>
    /\ UNCHANGED <<ebVars, hostVars>>

(***************************************************************************)
(* ErrorBoundary.  React drives the class through render passes: render(), *)
(* then the rendering of the returned children; a throw of a descendant is *)
(* handed to getDerivedStateFromError and the boundary is rendered again   *)
(* in the same pass; the commit calls componentDidUpdate (on updates) and  *)
(* componentDidCatch (after a capture).                                    *)
(***************************************************************************)
\* A child of the boundary: NormalComponent, or a component that throws
\* `value` while it renders (ThrowError, ConditionalError).
NormalComponent == [throws |-> FALSE, value |-> JSUndefined]
ThrowError(value) == [throws |-> TRUE, value |-> value]

\* The Error instance the child at position i throws.
ErrorNames == <<"Error1", "Error2", "Error3", "Error4">>
ErrorOf(i) == JSObj(ErrorNames[i])

\* What the child at position i does when rendered: it renders normally,
\* throws its Error, or throws the non-Error value null.
EBChildKinds == {"normal", "throw Error", "throw null"}
EBChildAt(kind, i) ==
    CASE kind = "normal" -> NormalComponent
      [] kind = "throw Error" -> ThrowError(ErrorOf(i))
      [] OTHER -> ThrowError(JSNull)

\* The values a parent passes as resetKey; NaN is never `===` itself.
ResetKeys == {JSNum(1), JSNum(2), JSNaN}

EBChildLists ==
    {[i \in 1..MaxSiblings |-> EBChildAt(ks[i], i)] : ks \in [1..MaxSiblings -> EBChildKinds]}

ErrorBoundaryPropsSet ==
    {[fallback |-> fb, children |-> cs, onError |-> oe, resetKey |-> k] :
        fb \in {NodeProp("fallback", 0), FnProp("fallback", 0)},
        cs \in EBChildLists, oe \in BOOLEAN, k \in ResetKeys}

\* `a !== b`.
StrictNotEqual(a, b) == a # b \/ a.nan \/ b.nan

\* The output of `return children` once React has rendered the first n children.
ChildrenOutput(n) == [k |-> "children", id |-> "children", i |-> n, args |-> <<>>]
ResetFn == JSObj("this.reset")
ErrorInfo == JSObj("errorInfo")

\* constructor: this.state = { error: null }.
InitialState == [error |-> JSNull]

\* Mutant of getDerivedStateFromError: the state is left as it was.
getDerivedStateFromErrorDrops(error) == InitialState

getDerivedStateFromError(error) == [error |-> error]

\* Mutant of resetState: the error is kept.
resetStateKeeps(st) == st

\* reset: this.setState({ error: null }).
resetState(st) == [st EXCEPT !.error = JSNull]

\* Mutant of render: the children are returned whatever the state.
renderChildrenAlways(st, p) == ChildrenOutput(0)

\* render(): the fallback while an error is held, else the children (none
\* of them rendered by React yet).
render(st, p) ==
    IF ToBoolean(st.error)
        THEN IF p.fallback.fn
                 THEN Result(p.fallback.id, p.fallback.i, <<st.error, ResetFn>>)
                 ELSE Elem(p.fallback.id, p.fallback.i)
        ELSE ChildrenOutput(0)

\* Mutant of resetKeyChanged: the keys are never seen to differ.
resetKeyChangedNever(st, prev, p) == FALSE

\* The test of componentDidUpdate.
resetKeyChanged(st, prev, p) ==
    ToBoolean(st.error) /\ StrictNotEqual(prev.resetKey, p.resetKey)

OnErrorCall(error, errorInfo) ==
    [id |-> "onError", i |-> 0, args |-> <<error, errorInfo>>]

\* Mutant of componentDidCatch: the callback is called twice.
componentDidCatchTwice(p, cs, error, errorInfo) ==
    IF p.onError
        THEN cs \o <<OnErrorCall(error, errorInfo), OnErrorCall(error, errorInfo)>>
        ELSE cs

\* componentDidCatch: this.props.onError?.(error, errorInfo).
componentDidCatch(p, cs, error, errorInfo) ==
    IF p.onError THEN Append(cs, OnErrorCall(error, errorInfo)) ELSE cs

Throwers(cs) == {i \in 1..Len(cs) : cs[i].throws}
FirstThrower(cs) == CHOOSE i \in Throwers(cs) : \A j \in Throwers(cs) : i <= j

\* React calls render() of the boundary.
Render ==
    /\ pc = "scheduled"
    /\ wip' = render(state, props)
    /\ pc' = IF render(state, props).k = "children" THEN "children" ELSE "commit"
    /\ pending' = FALSE
    /\ UNCHANGED <<comp, props, output, calls, state, prevProps, mounted, thrown,
                   didCapture, trigger>>
    /\ UNCHANGED hostVars

\* React renders the returned children in order.  A throw aborts the
\* subtree: a boundary that has not captured in this pass is handed the
\* value; one that has already captured cannot handle it again, the throw
\* reaches the root and the whole tree is unmounted.
RenderChildren ==
    /\ pc = "children"
    /\ IF Throwers(props.children) = {}
           THEN /\ wip' = ChildrenOutput(Len(props.children))
                /\ pc' = "commit"
                /\ UNCHANGED <<thrown, output>>
           ELSE /\ wip' = ChildrenOutput(FirstThrower(props.children) - 1)
                /\ thrown' = props.children[FirstThrower(props.children)].value
                /\ IF didCapture
                       THEN pc' = "crashed" /\ output' = NodeNull
                       ELSE pc' = "capture" /\ UNCHANGED output
    /\ UNCHANGED <<comp, props, calls, state, prevProps, mounted, didCapture,
                   pending, trigger>>
    /\ UNCHANGED hostVars

\* React calls getDerivedStateFromError with the thrown value, drops the
\* unfinished subtree and renders the boundary again.
GetDerivedStateFromError ==
    /\ pc = "capture"
    /\ state' = getDerivedStateFromError(thrown)
    /\ didCapture' = TRUE
    /\ wip' = NodeUndefined
    /\ pc' = "scheduled"
    /\ UNCHANGED <<comp, props, output, calls, prevProps, mounted, thrown,
                   pending, trigger>>
    /\ UNCHANGED hostVars

\* The pass is complete: React commits the work-in-progress output.
Commit ==
    /\ pc = "commit"
    /\ output' = wip
    /\ pc' = IF mounted THEN "didUpdate" ELSE "didCatch"
    /\ UNCHANGED <<comp, props, calls, state, prevProps, mounted, wip, thrown,
                   didCapture, pending, trigger>>
    /\ UNCHANGED hostVars

\* componentDidUpdate(prevProps), called in the commit of an update.  With
\* a resetKey that differs from itself (NaN) every commit of a tripped
\* boundary resets again; the log of onError calls bounds that cycle here.
ComponentDidUpdate ==
    /\ pc = "didUpdate"
    /\ resetKeyChanged(state, prevProps, props) => Len(calls) < MaxCalls
    /\ IF resetKeyChanged(state, prevProps, props)
           THEN state' = resetState(state) /\ pending' = TRUE
           ELSE UNCHANGED <<state, pending>>
    /\ pc' = "didCatch"
    /\ UNCHANGED <<comp, props, output, calls, prevProps, mounted, wip, thrown,
                   didCapture, trigger>>
    /\ UNCHANGED hostVars

\* componentDidCatch(error, errorInfo), called in the commit of a pass that
\* captured a throw; the commit then ends, and a setState made by
\* componentDidUpdate is rendered at once.
ComponentDidCatch ==
    /\ pc = "didCatch"
    /\ calls' = IF didCapture
                    THEN componentDidCatch(props, calls, thrown, ErrorInfo)
                    ELSE calls
    /\ didCapture' = FALSE
    /\ mounted' = TRUE
    /\ prevProps' = props
    /\ pc' = IF pending THEN "scheduled" ELSE "idle"
    /\ trigger' = IF pending THEN "resetKey" ELSE trigger
    /\ UNCHANGED <<comp, props, output, state, wip, thrown, pending>>
    /\ UNCHANGED hostVars

\* The parent renders the boundary again with new children and resetKey.
ParentUpdate(children, resetKey) ==
    /\ pc = "idle"
    /\ Len(calls) < MaxCalls
    /\ props' = [props EXCEPT !.children = children, !.resetKey = resetKey]
    /\ pc' = "scheduled"
    /\ trigger' = "props"
    /\ UNCHANGED <<comp, output, calls, state, prevProps, mounted, wip, thrown,
                   didCapture, pending>>
    /\ UNCHANGED hostVars

\* The reset function handed to the fallback is called from the fallback's
\* UI; the handler may update the children in the same batch.
Reset(children) ==
    /\ pc = "idle"
    /\ Len(calls) < MaxCalls
    /\ output.k = "result"
    /\ ResetFn \in {output.args[j] : j \in 1..Len(output.args)}
    /\ state' = resetState(state)
    /\ props' = [props EXCEPT !.children = children]
    /\ pc' = "scheduled"
    /\ trigger' = "reset"
    /\ UNCHANGED <<comp, output, calls, prevProps, mounted, wip, thrown,
                   didCapture, pending>>
    /\ UNCHANGED hostVars

\* No Visible instance exists: no element, no effect has run, no observer.
VisibleUnused ==
    /\ isSupported = TRUE
    /\ ref = FALSE
    /\ deps = <<>>
    /\ observers = {}
    /\ cleanup = 0

\* No Await instance exists: no thenable is awaited, no reaction is queued.
AwaitUnused ==
    /\ thenables = <<>>
    /\ jobs = <<>>

EBUnused ==
    /\ state = InitialState
    /\ prevProps = [resetKey |-> JSUndefined]
    /\ mounted = FALSE
    /\ wip = NodeUndefined
    /\ thrown = JSUndefined
    /\ didCapture = FALSE
    /\ pending = FALSE
    /\ trigger = "mount"

InitErrorBoundary ==
    /\ comp = "ErrorBoundary"
    /\ props \in ErrorBoundaryPropsSet
    /\ output = NodeUndefined
    /\ calls = <<>>
    /\ pc = "scheduled"
    /\ state = InitialState
    /\ prevProps = [resetKey |-> JSUndefined]
    /\ mounted = FALSE
    /\ wip = NodeUndefined
    /\ thrown = JSUndefined
    /\ didCapture = FALSE
    /\ pending = FALSE
    /\ trigger = "mount"
    /\ VisibleUnused
    /\ AwaitUnused

NextErrorBoundary ==
    \/ Render
    \/ RenderChildren
    \/ GetDerivedStateFromError
    \/ Commit
    \/ ComponentDidUpdate
    \/ ComponentDidCatch
    \/ \E cs \in EBChildLists, k \in ResetKeys : ParentUpdate(cs, k)
    \/ \E cs \in EBChildLists : Reset(cs)

SpecErrorBoundary == InitErrorBoundary /\ [][NextErrorBoundary]_vars

(***************************************************************************)
(* Specifications: one render of a function component with arbitrary       *)
(* props.                                                                  *)
(***************************************************************************)
Unrendered ==
    /\ EBUnused
    /\ VisibleUnused
    /\ AwaitUnused
    /\ pc = "ready"
    /\ output = NodeUndefined
    /\ calls = <<>>

InitGate ==
    /\ Unrendered
    /\ \/ comp = "If" /\ props \in IfPropsSet
       \/ comp = "Show" /\ props \in ShowPropsSet

NextGate ==
    \/ RenderIf
    \/ RenderShow

SpecGate == InitGate /\ [][NextGate]_vars

InitSwitch ==
    /\ Unrendered
    /\ comp = "Switch"
    /\ \E n \in 0..MaxChildren : \E ks \in [1..n -> SwitchChildKinds] : \E fb \in FallbackProps :
           props = SwitchProps(ks, fb)

NextSwitch == RenderSwitch

SpecSwitch == InitSwitch /\ [][NextSwitch]_vars

InitList ==
    /\ Unrendered
    /\ \/ comp = "For" /\ props \in ForPropsSet
       \/ comp = "Repeat" /\ props \in RepeatPropsSet

NextList ==
    \/ RenderFor
    \/ RenderRepeat

SpecList == InitList /\ [][NextList]_vars

(***************************************************************************)
(* Hook components.  React keeps the values of useState and useRef of a    *)
(* mounted instance in `state`; the variables of the class lifecycle are   *)
(* not used by them.                                                       *)
(***************************************************************************)
classVars == <<prevProps, wip, thrown, didCapture, trigger>>

ClassUnused ==
    /\ prevProps = [resetKey |-> JSUndefined]
    /\ wip = NodeUndefined
    /\ thrown = JSUndefined
    /\ didCapture = FALSE
    /\ trigger = "mount"

(***************************************************************************)
(* Once.                                                                   *)
(***************************************************************************)
\* The children a parent hands to Once: nothing, or the element of one of
\* the parent's renders (`Render: {renderCount}`).
OnceChildren ==
    {NodeNull, NodeUndefined} \cup {Elem("children", v) : v \in 1..MaxVersions}

OncePropsSet == [children : OnceChildren]

\* useRef({ rendered: false, content: null }).
OnceInitialRef == [rendered |-> FALSE, content |-> NodeNull]

\* Mutant of Once: the cache is filled again at every render.
OnceRefresh(p, st) ==
    [state |-> [cachedRef |-> [rendered |-> TRUE, content |-> p.children]],
     out |-> p.children]

\* Mutant of Once: an empty cached content counts as "not rendered yet".
OnceTestsContent(p, st) ==
    LET cachedRef == IF st.cachedRef.content \in {NodeNull, NodeUndefined}
                         THEN [rendered |-> TRUE, content |-> p.children]
                         ELSE st.cachedRef
    IN  [state |-> [cachedRef |-> cachedRef], out |-> cachedRef.content]

\* Once: one call of the function component with the props p and the hook
\* values st; the ref after the call and the value returned.
Once(p, st) ==
    LET cachedRef == IF ~st.cachedRef.rendered
                         THEN [rendered |-> TRUE, content |-> p.children]
                         ELSE st.cachedRef
    IN  [state |-> [cachedRef |-> cachedRef], out |-> cachedRef.content]

\* The first render of an instance.
MountOnce ==
    /\ comp = "Once"
    /\ pc = "ready"
    /\ state' = Once(props, state).state
    /\ output' = Once(props, state).out
    /\ mounted' = TRUE
    /\ pc' = "done"
    /\ UNCHANGED <<comp, props, calls, pending, classVars, hostVars>>

\* The parent renders again and hands new children to the mounted instance.
RerenderOnce(children) ==
    /\ comp = "Once"
    /\ pc = "done"
    /\ props' = [children |-> children]
    /\ state' = Once(props', state).state
    /\ output' = Once(props', state).out
    /\ UNCHANGED <<comp, calls, pc, mounted, pending, classVars, hostVars>>

\* The instance is unmounted; its ref is dropped, and a later mount (with
\* any children) is a new instance.
UnmountOnce(children) ==
    /\ comp = "Once"
    /\ pc = "done"
    /\ props' = [children |-> children]
    /\ state' = [cachedRef |-> OnceInitialRef]
    /\ output' = NodeUndefined
    /\ mounted' = FALSE
    /\ pc' = "ready"
    /\ UNCHANGED <<comp, calls, pending, classVars, hostVars>>

InitOnce ==
    /\ comp = "Once"
    /\ props \in OncePropsSet
    /\ state = [cachedRef |-> OnceInitialRef]
    /\ output = NodeUndefined
    /\ calls = <<>>
    /\ pc = "ready"
    /\ mounted = FALSE
    /\ pending = FALSE
    /\ ClassUnused
    /\ VisibleUnused
    /\ AwaitUnused

NextOnce ==
    \/ MountOnce
    \/ \E c \in OnceChildren : RerenderOnce(c)
    \/ \E c \in OnceChildren : UnmountOnce(c)

SpecOnce == InitOnce /\ [][NextOnce]_vars

(***************************************************************************)
(* Visible.  One pass of React calls the function and commits what it      *)
(* returns (attaching the ref to a rendered wrapper); the effects of the   *)
(* commit run afterwards.  A notification of a connected observer, an      *)
(* update by the parent and the unmount are events from outside.           *)
(***************************************************************************)
VisibleChildren == Elem("children", 0)

\* The handlers a parent passes: none, or one of two function identities
\* (an inline handler is a new function at every render of the parent).
VisibilityHandlers ==
    {JSUndefined, JSObj("handleVisibilityChange1"), JSObj("handleVisibilityChange2")}
RootMargins == {JSUndefined, JSStr("100px")}
Thresholds == {JSUndefined, JSNum(1)}
OnceValues == {JSUndefined, JSBool(FALSE)}    \* the default (true), and false

VisibleProps(fallback, rootMargin, threshold, once, onVisibilityChange) ==
    [children |-> VisibleChildren, fallback |-> fallback, rootMargin |-> rootMargin,
     threshold |-> threshold, once |-> once, onVisibilityChange |-> onVisibilityChange]

\* A parameter with a default takes it when the prop is undefined.
DefaultTo(v, d) == IF v = JSUndefined THEN d ELSE v

\* The destructured parameters of Visible with their defaults.
VisibleParams(p) ==
    [children |-> p.children,
     fallback |-> DefaultNull(p.fallback),
     rootMargin |-> DefaultTo(p.rootMargin, JSStr("0px")),
     threshold |-> DefaultTo(p.threshold, JSNum(0)),
     once |-> DefaultTo(p.once, JSBool(TRUE)),
     onVisibilityChange |-> p.onVisibilityChange]

\* The values of the three useState hooks at the first render.
VisibleInitialState == [isVisible |-> FALSE, hasBeenVisible |-> FALSE, isClient |-> FALSE]

\* <div ref={ref} data-testid="visible-wrapper">{child}</div>
Wrapper(child) ==
    [k |-> "wrapper", id |-> IF child.k = "elem" THEN child.id ELSE child.k,
     i |-> child.i, args |-> <<>>]

\* Mutant of Visible: the sticky flag decides whatever `once` is.
VisibleAlwaysSticky(p, st, supported) ==
    IF ~st.isClient \/ ~supported
        THEN p.children
        ELSE Wrapper(IF st.hasBeenVisible THEN p.children ELSE DefaultNull(p.fallback))

\* Mutant of Visible: the missing IntersectionObserver is not looked at.
VisibleIgnoresSupport(p, st, supported) ==
    IF ~st.isClient
        THEN p.children
        ELSE Wrapper(IF (IF ToBoolean(VisibleParams(p).once)
                             THEN st.hasBeenVisible ELSE st.isVisible)
                         THEN p.children ELSE DefaultNull(p.fallback))

\* Mutant of Visible: the wrapper is rendered from the first render on.
VisibleNoClientCheck(p, st, supported) ==
    IF ~supported
        THEN p.children
        ELSE Wrapper(IF (IF ToBoolean(VisibleParams(p).once)
                             THEN st.hasBeenVisible ELSE st.isVisible)
                         THEN p.children ELSE DefaultNull(p.fallback))

\* Visible: the value the function returns for the props p, the hook values
\* st and the environment.
Visible(p, st, supported) ==
    LET v == VisibleParams(p)
        shouldRender == IF ToBoolean(v.once) THEN st.hasBeenVisible ELSE st.isVisible
    IN  IF ~st.isClient
            THEN v.children
            ELSE IF ~supported
                     THEN v.children
                     ELSE Wrapper(IF shouldRender THEN v.children ELSE v.fallback)

\* The dependency array of the observer effect.
EffectDeps(p, st, supported) ==
    LET v == VisibleParams(p)
    IN  <<JSBool(st.isClient), JSBool(supported), v.rootMargin, v.threshold,
          v.once, v.onVisibilityChange>>

\* React runs an effect at mount and when a dependency is not the same value
\* as at the last run.
DepsChanged(prev, next) ==
    prev = <<>> \/ \E j \in 1..Len(next) : prev[j] # next[j]

\* new IntersectionObserver(callback, { rootMargin, threshold }): the
\* observer with the options and the variables its callback closes over.
Observer(id, v) ==
    [id |-> id, rootMargin |-> v.rootMargin, threshold |-> v.threshold,
     once |-> v.once, onVisibilityChange |-> v.onVisibilityChange]

\* The identity of a new observer: different from every connected one and
\* from the one the last cleanup function closes over.
NewObserverId(obs, last) ==
    CHOOSE n \in 1..(Cardinality(obs) + 2) :
        /\ n # last /\ \A o \in obs : o.id # n
        /\ \A m \in 1..(n - 1) : m = last \/ \E o \in obs : o.id = m

\* Mutant of disconnect: the observer goes on observing.
disconnectNothing(obs, id) == obs

\* observer.disconnect().
disconnect(obs, id) == {o \in obs : o.id # id}

\* onVisibilityChange?.(visible), of whichever handler the callback closes
\* over.
VisibilityCall(handler, visible) ==
    [id |-> "onVisibilityChange", i |-> 0, args |-> <<JSBool(visible)>>]

\* Mutant of ObserverCallback: setHasBeenVisible(visible).
ObserverCallbackFollows(o, visible, st, cs, obs) ==
    [state |-> [st EXCEPT !.isVisible = visible, !.hasBeenVisible = visible],
     calls |-> IF o.onVisibilityChange # JSUndefined
                   THEN Append(cs, VisibilityCall(o.onVisibilityChange, visible))
                   ELSE cs,
     observers |-> IF visible /\ ToBoolean(o.once) THEN disconnect(obs, o.id) ELSE obs]

\* Mutant of ObserverCallback: the sticky flag is set only under `once`.
ObserverCallbackOnceOnly(o, visible, st, cs, obs) ==
    [state |-> [st EXCEPT !.isVisible = visible,
                          !.hasBeenVisible = IF visible /\ ToBoolean(o.once)
                                                 THEN TRUE ELSE @],
     calls |-> IF o.onVisibilityChange # JSUndefined
                   THEN Append(cs, VisibilityCall(o.onVisibilityChange, visible))
                   ELSE cs,
     observers |-> IF visible /\ ToBoolean(o.once) THEN disconnect(obs, o.id) ELSE obs]

\* The callback of the observer o, called with an entry whose isIntersecting
\* is `visible`: the hook values, the call log and the connected observers
\* after it.
ObserverCallback(o, visible, st, cs, obs) ==
    [state |-> [st EXCEPT !.isVisible = visible,
                          !.hasBeenVisible = IF visible THEN TRUE ELSE @],
     calls |-> IF o.onVisibilityChange # JSUndefined
                   THEN Append(cs, VisibilityCall(o.onVisibilityChange, visible))
                   ELSE cs,
     observers |-> IF visible /\ ToBoolean(o.once) THEN disconnect(obs, o.id) ELSE obs]

\* One run of the observer effect, after the cleanup function of its last
\* run (if that run returned one): the hook values, the connected observers
\* and the cleanup function (the observer it disconnects, 0: none) after it.
ObserverEffect(p, st, supported, element, obs, last) ==
    LET cleaned == IF last # 0 THEN disconnect(obs, last) ELSE obs
        id == NewObserverId(cleaned, last)
    IN  IF ~st.isClient
            THEN [state |-> st, observers |-> cleaned, cleanup |-> 0]
            ELSE IF ~supported
                     THEN [state |-> [st EXCEPT !.isVisible = TRUE, !.hasBeenVisible = TRUE],
                           observers |-> cleaned, cleanup |-> 0]
                     ELSE IF ~element
                              THEN [state |-> st, observers |-> cleaned, cleanup |-> 0]
                              ELSE [state |-> st,
                                    observers |-> cleaned \cup {Observer(id, VisibleParams(p))},
                                    cleanup |-> id]

\* React calls Visible (at mount, after an update by the parent or after a
\* setState) and commits the output.
RenderVisible ==
    /\ comp = "Visible"
    /\ pc = "render" \/ (pc = "idle" /\ pending)
    /\ output' = Visible(props, state, isSupported)
    /\ ref' = (output'.k = "wrapper")
    /\ mounted' = TRUE
    /\ pending' = FALSE
    /\ pc' = "effects"
    /\ UNCHANGED <<comp, props, calls, state, classVars, isSupported, deps,
                   observers, cleanup, awaitVars>>

\* The effects of the commit run: at mount both effects, the observer effect
\* with the isClient of that render and setIsClient(true); after an update
\* the observer effect when a dependency changed.
RunEffectsVisible ==
    /\ comp = "Visible"
    /\ pc = "effects"
    /\ LET next == EffectDeps(props, state, isSupported)
           r == IF DepsChanged(deps, next)
                    THEN ObserverEffect(props, state, isSupported, ref, observers, cleanup)
                    ELSE [state |-> state, observers |-> observers, cleanup |-> cleanup]
           st == IF deps = <<>> THEN [r.state EXCEPT !.isClient = TRUE] ELSE r.state
       IN  /\ state' = st
           /\ observers' = r.observers
           /\ cleanup' = r.cleanup
           /\ deps' = next
           /\ pending' = (pending \/ st # state)
    /\ pc' = "idle"
    /\ UNCHANGED <<comp, props, output, calls, mounted, classVars, isSupported,
                   ref, awaitVars>>

\* A connected observer delivers a notification.
NotifyVisible(o, visible) ==
    /\ comp = "Visible"
    /\ mounted
    /\ pc \in {"render", "effects", "idle"}
    /\ o \in observers
    /\ Len(calls) < MaxNotifications
    /\ LET r == ObserverCallback(o, visible, state, calls, observers)
       IN  /\ state' = r.state
           /\ calls' = r.calls
           /\ observers' = r.observers
           /\ pending' = (pending \/ r.state # state)
    /\ UNCHANGED <<comp, props, output, pc, mounted, classVars, isSupported,
                   ref, deps, cleanup, awaitVars>>

\* The values a parent may pass for one of the props the observer effect
\* depends on.
ObserverPropValues(prop) ==
    CASE prop = "rootMargin" -> RootMargins
      [] prop = "threshold" -> Thresholds
      [] prop = "once" -> OnceValues
      [] prop = "onVisibilityChange" -> VisibilityHandlers

\* The parent renders again and passes a value (new or not) of one of these
\* props.
ParentUpdateVisible(prop, value) ==
    /\ comp = "Visible"
    /\ mounted
    /\ pc = "idle"
    /\ props' = [props EXCEPT ![prop] = value]
    /\ pc' = "render"
    /\ UNCHANGED <<comp, output, calls, state, mounted, pending, classVars,
                   hostVars>>

\* The instance is unmounted: the cleanup function of the observer effect
\* runs.
UnmountVisible ==
    /\ comp = "Visible"
    /\ mounted
    /\ pc = "idle"
    /\ observers' = IF cleanup # 0 THEN disconnect(observers, cleanup) ELSE observers
    /\ cleanup' = 0
    /\ ref' = FALSE
    /\ mounted' = FALSE
    /\ pending' = FALSE
    /\ output' = NodeUndefined
    /\ pc' = "unmounted"
    /\ UNCHANGED <<comp, props, calls, state, classVars, isSupported, deps,
                   awaitVars>>

InitVisible ==
    /\ comp = "Visible"
    /\ \E fb \in FallbackProps, rm \in RootMargins, th \in Thresholds,
          on \in OnceValues, h \in VisibilityHandlers :
           props = VisibleProps(fb, rm, th, on, h)
    /\ state = VisibleInitialState
    /\ output = NodeUndefined
    /\ calls = <<>>
    /\ pc = "render"
    /\ mounted = FALSE
    /\ pending = FALSE
    /\ ClassUnused
    /\ isSupported \in BOOLEAN
    /\ ref = FALSE
    /\ deps = <<>>
    /\ observers = {}
    /\ cleanup = 0
    /\ AwaitUnused

NextVisible ==
    \/ RenderVisible
    \/ RunEffectsVisible
    \/ \E o \in observers, visible \in BOOLEAN : NotifyVisible(o, visible)
    \/ \E prop \in {"rootMargin", "threshold", "once", "onVisibilityChange"} :
           \E value \in ObserverPropValues(prop) : ParentUpdateVisible(prop, value)
    \/ UnmountVisible

SpecVisible == InitVisible /\ [][NextVisible]_vars

(***************************************************************************)
(* Await, as its specification describes it: a resolution state keyed to   *)
(* the identity of the awaited input, with a generation captured by every  *)
(* subscription.  The thenables are the promises of the tests.  A render   *)
(* and its commit are one step; a settlement reaches the component as a    *)
(* queued reaction.                                                        *)
(***************************************************************************)
\* The awaited input: the thenable t, or a plain value.
Thenable(t) == [thenable |-> TRUE, id |-> t, value |-> JSUndefined]
Plain(v) == [thenable |-> FALSE, id |-> 0, value |-> v]

AwaitInputs ==
    {Thenable(t) : t \in 1..MaxThenables} \cup {Plain(JSStr("Direct value"))}

\* The value the test resolves the thenable t with, and the error it rejects
\* it with.
ResolutionOf(t) == JSNum(t)
RejectionOf(t) == ErrorOf(t)

NoProp == [fn |-> FALSE, id |-> "", i |-> 0]
LoadingProps == {NodeUndefined, Elem("loading", 0)}
ErrorProps == {NoProp, NodeProp("error", 0), FnProp("error", 0)}

AwaitProps(promise, loading, error, children) ==
    [promise |-> promise, loading |-> loading, error |-> error, children |-> children]

\* A promise made by createControllablePromise: pending, with no reaction
\* registered.
PendingThenable == [status |-> "pending", value |-> JSUndefined, reactions |-> <<>>]

\* The reaction of generation g to the settlement of the thenable t.
Job(t, g, status, value) ==
    [thenable |-> t, generation |-> g, status |-> status, value |-> value]

\* promise.then(onFulfilled, onRejected) by the subscription of generation
\* g: a pending promise registers the reaction, a settled one queues it.
Then(ths, jbs, t, g) ==
    IF ths[t].status = "pending"
        THEN [thenables |-> [ths EXCEPT ![t].reactions = Append(@, g)], jobs |-> jbs]
        ELSE [thenables |-> ths,
              jobs |-> Append(jbs, Job(t, g, ths[t].status, ths[t].value))]

\* Mutant of Settle: the promise settles and its reactions are dropped.
SettleQuietly(ths, jbs, t, status, value) ==
    [thenables |-> [ths EXCEPT ![t] = [status |-> status, value |-> value,
                                       reactions |-> <<>>]],
     jobs |-> jbs]

\* resolve(value) / reject(error) of a pending promise: it settles and its
\* reactions are queued in the order of their registration.
Settle(ths, jbs, t, status, value) ==
    [thenables |-> [ths EXCEPT ![t] = [status |-> status, value |-> value,
                                       reactions |-> <<>>]],
     jobs |-> jbs \o [j \in 1..Len(ths[t].reactions) |->
                          Job(t, ths[t].reactions[j], status, value)]]

\* The resolution state before the first render: keyed to no input.
AwaitInitialState ==
    [status |-> "pending", value |-> JSUndefined, input |-> Plain(JSUndefined),
     generation |-> 0]

\* Mutant of AwaitRender: a new input is subscribed to, the resolution state
\* of the old one is kept.
AwaitRenderKeeps(p, st, ths, jbs) ==
    IF st.generation # 0 /\ st.input = p.promise
        THEN [state |-> st, thenables |-> ths, jobs |-> jbs]
        ELSE IF ~p.promise.thenable
                 THEN [state |-> [status |-> "fulfilled", value |-> p.promise.value,
                                  input |-> p.promise, generation |-> st.generation + 1],
                       thenables |-> ths, jobs |-> jbs]
                 ELSE [state |-> [st EXCEPT !.input = p.promise,
                                            !.generation = st.generation + 1],
                       thenables |-> Then(ths, jbs, p.promise.id, st.generation + 1).thenables,
                       jobs |-> Then(ths, jbs, p.promise.id, st.generation + 1).jobs]

\* Mutant of AwaitRender: a plain value is delivered like the result of a
\* promise, by a reaction that runs after the render.
AwaitRenderDefers(p, st, ths, jbs) ==
    IF st.generation # 0 /\ st.input = p.promise
        THEN [state |-> st, thenables |-> ths, jobs |-> jbs]
        ELSE IF ~p.promise.thenable
                 THEN [state |-> [status |-> "pending", value |-> JSUndefined,
                                  input |-> p.promise, generation |-> st.generation + 1],
                       thenables |-> ths,
                       jobs |-> Append(jbs, Job(0, st.generation + 1, "fulfilled",
                                                p.promise.value))]
                 ELSE [state |-> [status |-> "pending", value |-> JSUndefined,
                                  input |-> p.promise, generation |-> st.generation + 1],
                       thenables |-> Then(ths, jbs, p.promise.id, st.generation + 1).thenables,
                       jobs |-> Then(ths, jbs, p.promise.id, st.generation + 1).jobs]

\* One render of Await: when the identity of the input is not the one the
\* resolution state is keyed to, a plain value is fulfilled at once, and a
\* thenable resets the state to pending and is subscribed to with a new
\* generation.
AwaitRender(p, st, ths, jbs) ==
    IF st.generation # 0 /\ st.input = p.promise
        THEN [state |-> st, thenables |-> ths, jobs |-> jbs]
        ELSE IF ~p.promise.thenable
                 THEN [state |-> [status |-> "fulfilled", value |-> p.promise.value,
                                  input |-> p.promise, generation |-> st.generation + 1],
                       thenables |-> ths, jobs |-> jbs]
                 ELSE [state |-> [status |-> "pending", value |-> JSUndefined,
                                  input |-> p.promise, generation |-> st.generation + 1],
                       thenables |-> Then(ths, jbs, p.promise.id, st.generation + 1).thenables,
                       jobs |-> Then(ths, jbs, p.promise.id, st.generation + 1).jobs]

\* The output of Await for a resolution state: loading while pending, the
\* content (the callback applied to the value, or the static content) when
\* fulfilled, the error slot (the node, the callback applied to the error,
\* or nothing) when rejected.
AwaitOutput(p, st) ==
    CASE st.status = "pending" -> DefaultNull(p.loading)
      [] st.status = "fulfilled" ->
             IF p.children.fn
                 THEN Result(p.children.id, p.children.i, <<st.value>>)
                 ELSE Elem(p.children.id, p.children.i)
      [] st.status = "rejected" ->
             IF p.error = NoProp
                 THEN NodeNull
                 ELSE IF p.error.fn
                          THEN Result(p.error.id, p.error.i, <<st.value>>)
                          ELSE Elem(p.error.id, p.error.i)

\* Mutant of AwaitSettled: the generation of the reaction is not looked at.
AwaitSettledAlways(st, job) ==
    [st EXCEPT !.status = job.status, !.value = job.value]

\* The reaction of a subscription runs: the result is applied when the
\* subscription is that of the present generation, and discarded otherwise.
AwaitSettled(st, job) ==
    IF job.generation = st.generation
        THEN [st EXCEPT !.status = job.status, !.value = job.value]
        ELSE st

\* React renders Await with the present props (at mount, or after a
\* reaction changed the resolution state) and commits the output.
RenderAwait ==
    /\ comp = "Await"
    /\ pc = "render" \/ (pc = "idle" /\ pending)
    /\ LET r == AwaitRender(props, state, thenables, jobs)
       IN  /\ state' = r.state
           /\ thenables' = r.thenables
           /\ jobs' = r.jobs
           /\ output' = AwaitOutput(props, r.state)
    /\ mounted' = TRUE
    /\ pending' = FALSE
    /\ pc' = "idle"
    /\ UNCHANGED <<comp, props, calls, classVars, visibleVars>>

\* The parent renders again with another awaited input: rerender(<Await
\* promise={promise2} ...>).
ReplaceInput(input) ==
    /\ comp = "Await"
    /\ mounted
    /\ pc = "idle"
    /\ state.generation < MaxGenerations
    /\ props' = [props EXCEPT !.promise = input]
    /\ LET r == AwaitRender(props', state, thenables, jobs)
       IN  /\ state' = r.state
           /\ thenables' = r.thenables
           /\ jobs' = r.jobs
           /\ output' = AwaitOutput(props', r.state)
    /\ pending' = FALSE
    /\ UNCHANGED <<comp, calls, pc, mounted, classVars, visibleVars>>

\* The test resolves the thenable t.
Resolve(t) ==
    /\ comp = "Await"
    /\ thenables[t].status = "pending"
    /\ thenables' = Settle(thenables, jobs, t, "fulfilled", ResolutionOf(t)).thenables
    /\ jobs' = Settle(thenables, jobs, t, "fulfilled", ResolutionOf(t)).jobs
    /\ UNCHANGED <<comp, props, output, calls, pc, state, mounted, pending,
                   classVars, visibleVars>>

\* The test rejects the thenable t.
Reject(t) ==
    /\ comp = "Await"
    /\ thenables[t].status = "pending"
    /\ thenables' = Settle(thenables, jobs, t, "rejected", RejectionOf(t)).thenables
    /\ jobs' = Settle(thenables, jobs, t, "rejected", RejectionOf(t)).jobs
    /\ UNCHANGED <<comp, props, output, calls, pc, state, mounted, pending,
                   classVars, visibleVars>>

\* The oldest queued reaction runs.
DeliverJob ==
    /\ comp = "Await"
    /\ jobs # <<>>
    /\ state' = AwaitSettled(state, Head(jobs))
    /\ jobs' = Tail(jobs)
    /\ pending' = (pending \/ state' # state)
    /\ UNCHANGED <<comp, props, output, calls, pc, mounted, classVars,
                   visibleVars, thenables>>

InitAwait ==
    /\ comp = "Await"
    /\ \E in \in AwaitInputs, l \in LoadingProps, e \in ErrorProps, c \in ChildrenProps :
           props = AwaitProps(in, l, e, c)
    /\ state = AwaitInitialState
    /\ output = NodeUndefined
    /\ calls = <<>>
    /\ pc = "render"
    /\ mounted = FALSE
    /\ pending = FALSE
    /\ ClassUnused
    /\ VisibleUnused
    /\ thenables = [t \in 1..MaxThenables |-> PendingThenable]
    /\ jobs = <<>>

NextAwait ==
    \/ RenderAwait
    \/ \E in \in AwaitInputs : ReplaceInput(in)
    \/ \E t \in 1..MaxThenables : Resolve(t)
    \/ \E t \in 1..MaxThenables : Reject(t)
    \/ DeliverJob

SpecAwait == InitAwait /\ [][NextAwait]_vars

(***************************************************************************)
(* Two nested ErrorBoundaries.  The outer boundary has MaxSiblings         *)
(* components as children and, after the first `at` of them, an inner      *)
(* boundary with its own MaxSiblings children.  A component renders       *)
(* normally or throws an Error: new Error("Outer") at the outer level,     *)
(* new Error("Test") below the inner boundary.  state, output, wip, thrown *)
(* and didCapture hold one value for each of the two instances.            *)
(***************************************************************************)
Boundaries == {"outer", "inner"}
OuterError == JSObj("Error: Outer")
InnerError == JSObj("Error: Test")

NestedChildKinds == {"normal", "throw Error"}
NestedChildAt(kind, error) ==
    IF kind = "normal" THEN NormalComponent ELSE ThrowError(error)
NestedChildLists(error) ==
    {[i \in 1..MaxSiblings |-> NestedChildAt(ks[i], error)] :
        ks \in [1..MaxSiblings -> NestedChildKinds]}

\* The props of one of the boundaries: a fallback, no onError, no resetKey.
BoundaryProps(id, fn) ==
    [fallback |-> [fn |-> fn, id |-> id, i |-> 0], onError |-> FALSE,
     resetKey |-> JSUndefined]

NestedProps(outerFn, innerFn, siblings, at, children) ==
    [outer |-> BoundaryProps("Outer error", outerFn),
     inner |-> BoundaryProps("Inner error", innerFn),
     siblings |-> siblings, at |-> at, children |-> children]

NoInstance == [outer |-> NodeUndefined, inner |-> NodeUndefined]

\* The first of the components cs[from..to] that throws, 0 when none does.
FirstThrowerIn(cs, from, to) ==
    IF \E i \in from..to : cs[i].throws
        THEN CHOOSE i \in from..to :
                 cs[i].throws /\ \A j \in from..(i - 1) : ~cs[j].throws
        ELSE 0

\* React calls render() of the outer boundary.
NestedRender ==
    /\ comp = "Nested"
    /\ pc = "scheduled"
    /\ wip' = [outer |-> render(state.outer, props.outer), inner |-> NodeUndefined]
    /\ pc' = IF render(state.outer, props.outer).k = "children" THEN "before" ELSE "commit"
    /\ pending' = FALSE
    /\ UNCHANGED <<comp, props, output, calls, state, prevProps, mounted, thrown,
                   didCapture, trigger>>
    /\ UNCHANGED hostVars

\* React renders the children of the outer boundary from position `from`
\* to position `to`, and goes on at `next` when none of them throws.  A
\* throw outside the inner boundary is handed to the outer one; when that
\* one has captured in this pass already, the throw reaches the root.
NestedRenderSiblings(from, to, next) ==
    LET t == FirstThrowerIn(props.siblings, from, to)
    IN  IF t = 0
            THEN /\ wip' = [wip EXCEPT !.outer = ChildrenOutput(to)]
                 /\ pc' = next
                 /\ UNCHANGED <<thrown, output>>
            ELSE /\ wip' = [wip EXCEPT !.outer = ChildrenOutput(t - 1)]
                 /\ thrown' = [thrown EXCEPT !.outer = props.siblings[t].value]
                 /\ IF didCapture.outer
                        THEN pc' = "crashed" /\ output' = NoInstance
                        ELSE pc' = "capture" /\ UNCHANGED output

\* The children of the outer boundary that stand before the inner one.
NestedRenderBefore ==
    /\ comp = "Nested"
    /\ pc = "before"
    /\ NestedRenderSiblings(1, props.at, "inner")
    /\ UNCHANGED <<comp, props, calls, state, prevProps, mounted, didCapture,
                   pending, trigger>>
    /\ UNCHANGED hostVars

\* React calls render() of the inner boundary.
NestedRenderInner ==
    /\ comp = "Nested"
    /\ pc = "inner"
    /\ wip' = [wip EXCEPT !.inner = render(state.inner, props.inner)]
    /\ pc' = IF render(state.inner, props.inner).k = "children"
                 THEN "innerChildren" ELSE "after"
    /\ UNCHANGED <<comp, props, output, calls, state, prevProps, mounted, thrown,
                   didCapture, pending, trigger>>
    /\ UNCHANGED hostVars

\* React renders the children of the inner boundary.  A throw is handed to
\* the inner boundary, the nearest one; when that one has captured in this
\* pass already, to the outer boundary.
NestedRenderInnerChildren ==
    /\ comp = "Nested"
    /\ pc = "innerChildren"
    /\ LET t == FirstThrowerIn(props.children, 1, Len(props.children))
       IN  IF t = 0
               THEN /\ wip' = [wip EXCEPT !.inner = ChildrenOutput(Len(props.children))]
                    /\ pc' = "after"
                    /\ UNCHANGED <<thrown, output>>
               ELSE /\ wip' = [wip EXCEPT !.inner = ChildrenOutput(t - 1)]
                    /\ IF ~didCapture.inner
                           THEN /\ thrown' = [thrown EXCEPT !.inner = props.children[t].value]
                                /\ pc' = "captureInner"
                                /\ UNCHANGED output
                           ELSE /\ thrown' = [thrown EXCEPT !.outer = props.children[t].value]
                                /\ IF didCapture.outer
                                       THEN pc' = "crashed" /\ output' = NoInstance
                                       ELSE pc' = "capture" /\ UNCHANGED output
    /\ UNCHANGED <<comp, props, calls, state, prevProps, mounted, didCapture,
                   pending, trigger>>
    /\ UNCHANGED hostVars

\* getDerivedStateFromError of the inner boundary; React renders the inner
\* boundary again.
NestedCaptureInner ==
    /\ comp = "Nested"
    /\ pc = "captureInner"
    /\ state' = [state EXCEPT !.inner = getDerivedStateFromError(thrown.inner)]
    /\ didCapture' = [didCapture EXCEPT !.inner = TRUE]
    /\ pc' = "inner"
    /\ UNCHANGED <<comp, props, output, calls, prevProps, mounted, wip, thrown,
                   pending, trigger>>
    /\ UNCHANGED hostVars

\* The children of the outer boundary that stand after the inner one.
NestedRenderAfter ==
    /\ comp = "Nested"
    /\ pc = "after"
    /\ NestedRenderSiblings(props.at + 1, Len(props.siblings), "commit")
    /\ UNCHANGED <<comp, props, calls, state, prevProps, mounted, didCapture,
                   pending, trigger>>
    /\ UNCHANGED hostVars

\* getDerivedStateFromError of the outer boundary; React drops the
\* unfinished subtree and renders the outer boundary again.
NestedCaptureOuter ==
    /\ comp = "Nested"
    /\ pc = "capture"
    /\ state' = [state EXCEPT !.outer = getDerivedStateFromError(thrown.outer)]
    /\ didCapture' = [didCapture EXCEPT !.outer = TRUE]
    /\ wip' = NoInstance
    /\ pc' = "scheduled"
    /\ UNCHANGED <<comp, props, output, calls, prevProps, mounted, thrown,
                   pending, trigger>>
    /\ UNCHANGED hostVars

\* React commits the pass.  An inner boundary that is not part of the
\* committed tree (the outer one shows its fallback) is unmounted and its
\* state is gone.
NestedCommit ==
    /\ comp = "Nested"
    /\ pc = "commit"
    /\ output' = wip
    /\ IF wip.outer.k = "children"
           THEN UNCHANGED <<state, didCapture>>
           ELSE /\ state' = [state EXCEPT !.inner = InitialState]
                /\ didCapture' = [didCapture EXCEPT !.inner = FALSE]
    /\ pc' = "didCatch"
    /\ UNCHANGED <<comp, props, calls, prevProps, mounted, wip, thrown, pending,
                   trigger>>
    /\ UNCHANGED hostVars

\* The lifecycle methods of the commit, of the inner boundary first:
\* componentDidUpdate (the resetKey of these boundaries is never passed)
\* and componentDidCatch of each boundary that captured.
NestedComponentDidCatch ==
    /\ comp = "Nested"
    /\ pc = "didCatch"
    /\ state' = [b \in Boundaries |->
                    IF mounted /\ resetKeyChanged(state[b], prevProps, props[b])
                        THEN resetState(state[b]) ELSE state[b]]
    /\ pending' = (state' # state)
    /\ calls' = LET cs == IF didCapture.inner
                              THEN componentDidCatch(props.inner, calls, thrown.inner, ErrorInfo)
                              ELSE calls
                IN  IF didCapture.outer
                        THEN componentDidCatch(props.outer, cs, thrown.outer, ErrorInfo)
                        ELSE cs
    /\ didCapture' = [b \in Boundaries |-> FALSE]
    /\ mounted' = TRUE
    /\ pc' = IF pending' THEN "scheduled" ELSE "idle"
    /\ UNCHANGED <<comp, props, output, prevProps, wip, thrown, trigger>>
    /\ UNCHANGED hostVars

\* The parent renders the tree again; the components may throw or not.
NestedParentUpdate(siblings, children) ==
    /\ comp = "Nested"
    /\ pc = "idle"
    /\ props' = [props EXCEPT !.siblings = siblings, !.children = children]
    /\ pc' = "scheduled"
    /\ trigger' = "props"
    /\ UNCHANGED <<comp, output, calls, state, prevProps, mounted, wip, thrown,
                   didCapture, pending>>
    /\ UNCHANGED hostVars

\* The reset function handed to the fallback of the boundary b is called;
\* the handler may update the components in the same batch.
NestedReset(b, siblings, children) ==
    /\ comp = "Nested"
    /\ pc = "idle"
    /\ output[b].k = "result"
    /\ ResetFn \in {output[b].args[j] : j \in 1..Len(output[b].args)}
    /\ state' = [state EXCEPT ![b] = resetState(@)]
    /\ props' = [props EXCEPT !.siblings = siblings, !.children = children]
    /\ pc' = "scheduled"
    /\ trigger' = "reset"
    /\ UNCHANGED <<comp, output, calls, prevProps, mounted, wip, thrown,
                   didCapture, pending>>
    /\ UNCHANGED hostVars

InitNested ==
    /\ comp = "Nested"
    /\ \E outerFn \in BOOLEAN, innerFn \in BOOLEAN, at \in 0..MaxSiblings :
           \E siblings \in NestedChildLists(OuterError),
              children \in NestedChildLists(InnerError) :
               props = NestedProps(outerFn, innerFn, siblings, at, children)
    /\ output = NoInstance
    /\ calls = <<>>
    /\ pc = "scheduled"
    /\ state = [b \in Boundaries |-> InitialState]
    /\ prevProps = [resetKey |-> JSUndefined]
    /\ mounted = FALSE
    /\ wip = NoInstance
    /\ thrown = [b \in Boundaries |-> JSUndefined]
    /\ didCapture = [b \in Boundaries |-> FALSE]
    /\ pending = FALSE
    /\ trigger = "mount"
    /\ VisibleUnused
    /\ AwaitUnused

NextNested ==
    \/ NestedRender
    \/ NestedRenderBefore
    \/ NestedRenderInner
    \/ NestedRenderInnerChildren
    \/ NestedCaptureInner
    \/ NestedRenderAfter
    \/ NestedCaptureOuter
    \/ NestedCommit
    \/ NestedComponentDidCatch
    \/ \E siblings \in NestedChildLists(OuterError),
          children \in NestedChildLists(InnerError) :
           NestedParentUpdate(siblings, children)
    \/ \E b \in Boundaries :
           \E siblings \in NestedChildLists(OuterError),
              children \in NestedChildLists(InnerError) :
               NestedReset(b, siblings, children)

SpecNested == InitNested /\ [][NextNested]_vars

(***************************************************************************)
(* Split, as its specification describes it: the string is partitioned at  *)
(* the occurrences of the separator, and each part is rendered by the     *)
(* callback with (part, index, parts).  A string is held with its          *)
(* characters; the separator is a literal string of one character; the     *)
(* props reverse, wrapper and keyExtractor are not passed.                 *)
(***************************************************************************)
SplitAlphabet == {"a", "b", "c", ","}
SplitSeparators == {",", "b"}

\* The string made of the characters cs.
RECURSIVE Cat(_)
Cat(cs) == IF cs = <<>> THEN "" ELSE Head(cs) \o Cat(Tail(cs))

\* The `string` prop: null, undefined, or a string with its characters.
StringNull == [v |-> JSNull, chars |-> <<>>]
StringUndefined == [v |-> JSUndefined, chars |-> <<>>]
StringOf(cs) == [v |-> JSStr(Cat(cs)), chars |-> cs]

SplitProps(string, separator, keepSeparator, fallback) ==
    [string |-> string, separator |-> separator, keepSeparator |-> keepSeparator,
     fallback |-> fallback, children |-> FnProp("children", 0)]

\* Mutant of SplitParts: empty parts are dropped.
RECURSIVE SplitPartsCollapsing(_, _, _, _, _, _)
SplitPartsCollapsing(chars, separator, keepSeparator, j, part, parts) ==
    LET emit(ps) == IF part = <<>> THEN ps ELSE Append(ps, Cat(part))
    IN  IF j > Len(chars)
            THEN emit(parts)
            ELSE IF chars[j] = separator
                     THEN SplitPartsCollapsing(chars, separator, keepSeparator, j + 1, <<>>,
                              IF keepSeparator
                                  THEN Append(emit(parts), separator)
                                  ELSE emit(parts))
                     ELSE SplitPartsCollapsing(chars, separator, keepSeparator, j + 1,
                              Append(part, chars[j]), parts)

\* The partition of the string from position j on: `part` holds the
\* characters since the last separator, `parts` the parts emitted so far.
\* A separator ends the part (empty or not) and, with keepSeparator, is
\* emitted as a part of its own.
RECURSIVE SplitParts(_, _, _, _, _, _)
SplitParts(chars, separator, keepSeparator, j, part, parts) ==
    IF j > Len(chars)
        THEN Append(parts, Cat(part))
        ELSE IF chars[j] = separator
                 THEN SplitParts(chars, separator, keepSeparator, j + 1, <<>>,
                          IF keepSeparator
                              THEN Append(Append(parts, Cat(part)), separator)
                              ELSE Append(parts, Cat(part)))
                 ELSE SplitParts(chars, separator, keepSeparator, j + 1,
                          Append(part, chars[j]), parts)

\* The array of parts, the third argument of the callback.
PartsArray(parts) == [t |-> "array", items |-> parts]

\* Split: the fallback for an absent or empty string, else one fragment for
\* each part, keyed by its index.
Split(p) ==
    IF ~ToBoolean(p.string.v)
        THEN Returned(DefaultNull(p.fallback), <<>>)
        ELSE LET parts == SplitParts(p.string.chars, p.separator, p.keepSeparator,
                                     1, <<>>, <<>>)
                 args(j) == <<JSStr(parts[j]), JSNum(j - 1), PartsArray(parts)>>
             IN  Returned(
                     ListOf([j \in 1..Len(parts) |->
                         Fragment(IndexKey(j - 1),
                                  Result(p.children.id, p.children.i, args(j)))]),
                     [j \in 1..Len(parts) |-> Invocation(p.children, args(j))])

RenderSplit ==
    /\ pc = "ready"
    /\ comp = "Split"
    /\ output' = Split(props).out
    /\ calls' = Split(props).calls
    /\ pc' = "done"
    /\ UNCHANGED <<comp, props>>
    /\ UNCHANGED <<ebVars, hostVars>>

InitSplit ==
    /\ Unrendered
    /\ comp = "Split"
    /\ \E sep \in SplitSeparators, keep \in BOOLEAN, fb \in FallbackProps :
           \/ \E s \in {StringNull, StringUndefined} : props = SplitProps(s, sep, keep, fb)
           \/ \E n \in 0..MaxStringLen : \E cs \in [1..n -> SplitAlphabet] :
                  props = SplitProps(StringOf(cs), sep, keep, fb)

NextSplit == RenderSplit

SpecSplit == InitSplit /\ [][NextSplit]_vars

(***************************************************************************)
(* Properties of If and Show.                                              *)
(***************************************************************************)
GateRendered == pc = "done" /\ comp \in {"If", "Show"}
GateCondition == IF comp = "If" THEN props.condition ELSE props.when
GateContent ==
    IF props.children.fn
        THEN Result("children", 0, <<GateCondition>>)
        ELSE Elem("children", 0)
GateFallback == IF props.fallback = NodeUndefined THEN NodeNull ELSE props.fallback

\* C1: If and Show output the fallback (nothing when none is given) for the
\* falsy conditions 0, "", null, undefined, NaN, false, and the content for
\* truthy ones, [] and {} included; the output is exactly one of the two.
C1_GateOutput ==
    GateRendered =>
        /\ GateCondition \in FalsyValues => output = GateFallback
        /\ GateCondition \in TruthyValues => output = GateContent
        /\ (output = GateContent) # (output = GateFallback)

C1_Witness ==
    /\ GateRendered
    /\ comp = "Show"
    /\ props.when = JSNaN
    /\ props.fallback = Elem("fallback", 0)
    /\ output = Elem("fallback", 0)

\* C2: a callback child is invoked exactly once, with the condition value,
\* when the condition is truthy, and is not invoked when it is falsy (the
\* fallback is output then).
C2_GateCallback ==
    (GateRendered /\ props.children.fn) =>
        /\ GateCondition \in TruthyValues =>
               calls = <<[id |-> "children", i |-> 0, args |-> <<GateCondition>>]>>
        /\ GateCondition \in FalsyValues => calls = <<>> /\ output = GateFallback

C2_Witness ==
    /\ GateRendered
    /\ comp = "If"
    /\ props.children.fn
    /\ props.condition = JSStr("a")
    /\ Len(calls) = 1
    /\ output = Result("children", 0, <<JSStr("a")>>)

(***************************************************************************)
(* Properties of Switch.                                                   *)
(***************************************************************************)
SwitchRendered == pc = "done" /\ comp = "Switch"
IsTruthyMatchAt(i) ==
    /\ "__isMatch" \in props.children[i].marks
    /\ props.children[i].props.when \in {JSBool(TRUE), JSStr("a")}
IsDefaultAt(i) == "__isDefault" \in props.children[i].marks
TruthyMatches == {i \in 1..Len(props.children) : IsTruthyMatchAt(i)}
Defaults == {i \in 1..Len(props.children) : IsDefaultAt(i)}
Least(S) == CHOOSE i \in S : \A j \in S : i <= j
Greatest(S) == CHOOSE i \in S : \A j \in S : j <= i
MatchContentAt(i) ==
    IF props.children[i].props.children.fn
        THEN Result("match", i, <<props.children[i].props.when>>)
        ELSE Elem("match", i)

\* C3: Switch outputs the content of the first Match, in declaration order,
\* whose `when` is truthy, and of no other Match, however many later Matches
\* are truthy and wherever a Default stands.
C3_FirstTruthyMatch ==
    (SwitchRendered /\ TruthyMatches # {}) => output = MatchContentAt(Least(TruthyMatches))

C3_Witness ==
    /\ SwitchRendered
    /\ Len(props.children) = 3
    /\ props.children[1] = MatchElement(JSBool(FALSE), FALSE, 1)
    /\ props.children[2] = MatchElement(JSBool(TRUE), FALSE, 2)
    /\ props.children[3] = MatchElement(JSBool(TRUE), FALSE, 3)
    /\ output = Elem("match", 2)

\* C4: with no truthy Match, Switch outputs the content of the Default (the
\* last one, if several are declared) wherever it stands among the children,
\* else the `fallback` prop, else nothing; with a truthy Match it outputs
\* neither a Default's content nor the fallback.
C4_DefaultAndFallback ==
    SwitchRendered =>
        /\ (TruthyMatches = {} /\ Defaults # {}) => output = Elem("default", Greatest(Defaults))
        /\ (TruthyMatches = {} /\ Defaults = {}) =>
               output = (IF props.fallback = NodeUndefined THEN NodeNull ELSE props.fallback)
        /\ TruthyMatches # {} => output.k # "null" /\ output.id \notin {"default", "fallback"}

C4_Witness ==
    /\ SwitchRendered
    /\ Len(props.children) = 3
    /\ props.children[1] = DefaultElement(1)
    /\ props.children[2] = MatchElement(JSBool(FALSE), FALSE, 2)
    /\ props.children[3] = MatchElement(JSNull, TRUE, 3)
    /\ props.fallback = Elem("fallback", 0)
    /\ output = Elem("default", 1)

(***************************************************************************)
(* Properties of For and Repeat.                                           *)
(***************************************************************************)
ForRendered == pc = "done" /\ comp = "For"
RepeatRendered == pc = "done" /\ comp = "Repeat"

C6_RepeatForward ==
    RepeatRendered =>
        /\ props.times <= 0 => output = NodeNull /\ calls = <<>>
        /\ (props.times > 0 /\ props.reverse # JSBool(TRUE)) =>
               /\ Len(calls) = props.times
               /\ \A j \in 1..props.times : calls[j].args[1] = JSNum(j - 1)
               /\ output.k = "list"
               /\ Len(output.items) = props.times
               /\ \A j \in 1..props.times :
                      output.items[j].child.args[1] = JSNum(j - 1)

C6_Witness ==
    /\ RepeatRendered
    /\ props.times = 3
    /\ props.reverse = JSUndefined
    /\ Len(calls) = 3
    /\ Len(output.items) = 3

\* C7: Repeat with reverse = true and times = n visits the indices n-1, ...,
\* 0 in descending order, and every call receives the forward index and the
\* total count n.
C7_RepeatReverse ==
    (RepeatRendered /\ props.times > 0 /\ props.reverse = JSBool(TRUE)) =>
        /\ Len(calls) = props.times
        /\ \A j \in 1..props.times :
               calls[j].args = <<JSNum(props.times - j), JSNum(props.times)>>

(***************************************************************************)
(* Properties of ErrorBoundary.                                            *)
(***************************************************************************)
IsError(v) == v.t = "object"
EBFallbackOutput(e) ==
    IF props.fallback.fn
        THEN Result("fallback", 0, <<e, ResetFn>>)
        ELSE Elem("fallback", 0)
EBAllChildren == ChildrenOutput(Len(props.children))
EBNoChildThrows == \A i \in 1..Len(props.children) : ~props.children[i].throws
EBInCommit == pc \in {"didUpdate", "didCatch", "idle"}

\* C8: when a descendant throws an Error under a clear boundary, the
\* boundary captures that Error and renders the fallback (the node, or the
\* function applied to (error, reset)); while it holds an Error the
\* committed output is the fallback and never the children, and a child
\* list cut short by a throw is never committed.
C8_CaptureRendersFallback ==
    /\ (pc = "scheduled" /\ didCapture /\ IsError(thrown)) => state.error = thrown
    /\ (pc = "commit" /\ didCapture /\ IsError(thrown)) => wip = EBFallbackOutput(thrown)
    /\ (pc \in {"didUpdate", "idle"} /\ IsError(state.error)) =>
           output = EBFallbackOutput(state.error)
    /\ output.k = "children" => output.i = MaxSiblings

C8_Witness ==
    /\ pc = "idle"
    /\ props.children[1] = NormalComponent
    /\ props.children[2] = ThrowError(JSObj("Error2"))
    /\ props.fallback.fn
    /\ state.error = JSObj("Error2")
    /\ output = Result("fallback", 0, <<JSObj("Error2"), ResetFn>>)

\* C9: a call of the reset function handed to the fallback clears the
\* captured error, the next render attempt renders the children, and when
\* no child throws any more the boundary stays clear and the children, not
\* the fallback, are the output.
C9_ResetRestoresChildren ==
    trigger = "reset" =>
        /\ (pc = "scheduled" /\ ~didCapture) => state.error = JSNull
        /\ (pc = "commit" /\ ~didCapture) => wip = EBAllChildren
        /\ (pc = "idle" /\ EBNoChildThrows) => state.error = JSNull /\ output = EBAllChildren

C9_Witness ==
    /\ trigger = "reset"
    /\ pc = "idle"
    /\ calls = <<[id |-> "onError", i |-> 0, args |-> <<JSObj("Error1"), ErrorInfo>>]>>
    /\ state.error = JSNull
    /\ output = EBAllChildren

\* C10: when the resetKey of a boundary that holds an Error differs between
\* two consecutive renders, componentDidUpdate returns the boundary to clear
\* (no call of reset by the caller is needed) and the render that follows
\* renders the children.
C10_ResetKeyChangeResets ==
    /\ (pc = "didCatch" /\ mounted /\ output.id = "fallback"
            /\ prevProps.resetKey # props.resetKey) =>
           state.error = JSNull /\ pending
    /\ trigger = "resetKey" =>
           /\ (pc = "scheduled" /\ ~didCapture) => state.error = JSNull
           /\ (pc = "commit" /\ ~didCapture) => wip = EBAllChildren
           /\ (pc = "idle" /\ EBNoChildThrows) => state.error = JSNull /\ output = EBAllChildren

C10_Witness ==
    /\ trigger = "resetKey"
    /\ pc = "idle"
    /\ Len(calls) = 1
    /\ state.error = JSNull
    /\ output = EBAllChildren

Tripped == ToBoolean(state.error)

\* C11: onError is called exactly once for every transition of the boundary
\* from clear to tripped, with the thrown error and the error info, and is
\* never called unless a descendant has thrown.  A transition to tripped
\* happens only in a clear boundary that has no notification outstanding,
\* it opens exactly one (didCapture) for the thrown value, and makes no
\* call; the notification is closed only by one call onError(thrown,
\* errorInfo), the thrown value is not replaced while it is outstanding,
\* and calls are made in no other step.
C11_OnErrorOncePerTrip ==
    [][ /\ (~Tripped /\ Tripped') =>
               /\ ~didCapture /\ didCapture'
               /\ state'.error = thrown
               /\ calls' = calls
        /\ (~didCapture /\ didCapture') => (~Tripped /\ state'.error = thrown)
        /\ (didCapture /\ didCapture' /\ pc' # "crashed") => thrown' = thrown
        /\ (didCapture /\ ~didCapture') =>
               /\ IsError(thrown)
               /\ props.onError => calls' = Append(calls, OnErrorCall(thrown, ErrorInfo))
               /\ ~props.onError => calls' = calls
        /\ calls' # calls =>
               /\ didCapture /\ ~didCapture'
               /\ \E i \in 1..Len(props.children) : props.children[i] = ThrowError(thrown)
      ]_vars

C11_Witness ==
    /\ pc = "idle"
    /\ Tripped
    /\ calls = <<OnErrorCall(ErrorOf(1), ErrorInfo), OnErrorCall(ErrorOf(2), ErrorInfo)>>

(***************************************************************************)
(* Properties of Once.                                                     *)
(***************************************************************************)
\* C12: for one mounted Once instance the first render returns the children
\* it is given, and every later render returns what the render before it
\* returned, whatever children it is given: the output of the instance is
\* always the children of its first render, and later children are never
\* output.
C12_OnceKeepsFirst ==
    [][ comp = "Once" =>
            /\ (~mounted /\ mounted') => output' = props'.children
            /\ (mounted /\ mounted') =>
                   /\ output' = output
                   /\ output' = state'.cachedRef.content
      ]_vars

C12_Witness ==
    /\ comp = "Once"
    /\ mounted
    /\ output = Elem("children", 1)
    /\ props.children = Elem("children", 2)

(***************************************************************************)
(* Properties of Visible.                                                  *)
(***************************************************************************)
VisibleOnce == ToBoolean(VisibleParams(props).once)
VisibleContent == Wrapper(VisibleChildren)
VisibleFallback == Wrapper(DefaultNull(props.fallback))
\* The committed output is that of a render with the present props and hook
\* values.
VisibleCurrent == mounted /\ pc \in {"effects", "idle"} /\ ~pending

\* C13: for one mounted Visible instance hasBeenVisible never goes from true
\* back to false; with once = true (in an environment with
\* IntersectionObserver) an output that is the content stays the content,
\* and every render made while the flag is set outputs the content, also
\* after isIntersecting was reported true and then false.
C13_StickyOnce ==
    [][ (comp = "Visible" /\ mounted /\ mounted') =>
            /\ state.hasBeenVisible => state'.hasBeenVisible
            /\ (isSupported /\ VisibleOnce /\ VisibleOnce' /\ output = VisibleContent)
                   => output' = VisibleContent
            /\ (isSupported /\ VisibleOnce' /\ state'.hasBeenVisible /\ VisibleCurrent')
                   => output' = VisibleContent
      ]_vars

C13_Witness ==
    /\ comp = "Visible"
    /\ isSupported
    /\ VisibleOnce
    /\ VisibleCurrent
    /\ calls = <<VisibilityCall(JSUndefined, TRUE), VisibilityCall(JSUndefined, FALSE)>>
    /\ state.hasBeenVisible
    /\ ~state.isVisible
    /\ props.fallback = Elem("fallback", 0)
    /\ output = VisibleContent

\* C14: with once = false, in an environment with IntersectionObserver, a
\* notification leaves isVisible at the reported isIntersecting, the render
\* that follows outputs the content when it is true and the fallback when it
\* is false, and the observer created by the effect stays connected across
\* notifications.
C14_ToggleTracks ==
    [][ (comp = "Visible" /\ mounted /\ mounted' /\ isSupported /\ ~VisibleOnce') =>
            /\ Len(calls') = Len(calls) + 1 =>
                   state'.isVisible = calls'[Len(calls')].args[1].b
            /\ (VisibleCurrent' /\ state'.isClient) =>
                   output' = IF state'.isVisible THEN VisibleContent ELSE VisibleFallback'
            /\ (pc' = "idle" /\ deps'[1] = JSBool(TRUE)) =>
                   /\ Cardinality(observers') = 1
                   /\ (pc = "idle" /\ deps[1] = JSBool(TRUE)) => observers' = observers
      ]_vars

C14_Witness ==
    /\ comp = "Visible"
    /\ isSupported
    /\ ~VisibleOnce
    /\ pc = "idle"
    /\ VisibleCurrent
    /\ calls = <<VisibilityCall(JSUndefined, FALSE), VisibilityCall(JSUndefined, TRUE)>>
    /\ props.fallback = Elem("fallback", 0)
    /\ output = VisibleContent
    /\ Cardinality(observers) = 1

\* The observer of a once = true instance has reported isIntersecting = true
\* and disconnected itself.
VisibleLatched ==
    /\ comp = "Visible"
    /\ mounted
    /\ isSupported
    /\ VisibleOnce
    /\ state.hasBeenVisible
    /\ observers = {}

\* C15: with once = true, after a notification has reported isIntersecting =
\* true the observer is torn down, and for the rest of the life of the
\* mounted instance no observer is connected again and onVisibilityChange is
\* not called again.
C15_NoCallbackAfterLatch ==
    [][ (VisibleLatched /\ mounted' /\ VisibleOnce') =>
            /\ observers' = {}
            /\ calls' = calls
      ]_vars

\* C16: at most one observer of an instance is connected, and none after the
\* unmount; when a dependency (rootMargin, threshold, once,
\* onVisibilityChange) has changed, the effect that follows the render
\* disconnects the observer and connects a new one that has the new
\* configuration, and after the effects a connected observer has the
\* configuration of the present props.
C16_ObserverTeardown ==
    [][ comp = "Visible" =>
            /\ Cardinality(observers') <= 1
            /\ pc' = "unmounted" => observers' = {}
            /\ (pc = "effects" /\ deps # <<>> /\ deps' # deps) =>
                   /\ \A o \in observers : o \notin observers'
                   /\ (isSupported /\ state.isClient) =>
                          /\ cleanup' \notin {0, cleanup}
                          /\ observers' = {Observer(cleanup', VisibleParams(props))}
            /\ (pc' = "idle" /\ isSupported) =>
                   \A o \in observers' : o = Observer(o.id, VisibleParams(props'))
      ]_vars

C16_Witness ==
    /\ comp = "Visible"
    /\ pc = "idle"
    /\ props.rootMargin = JSStr("100px")
    /\ props.onVisibilityChange = JSObj("handleVisibilityChange2")
    /\ cleanup = 1
    /\ observers = {Observer(1, VisibleParams(props))}
    /\ Len(calls) = 1

\* C17: without IntersectionObserver every render of Visible outputs the
\* children (never the wrapper, never the fallback), before and after the
\* mount effects, and no observer is created.
C17_NoObserverSupport ==
    (comp = "Visible" /\ ~isSupported) =>
        /\ observers = {}
        /\ cleanup = 0
        /\ ~ref
        /\ mounted => output = props.children

C17_Witness ==
    /\ comp = "Visible"
    /\ ~isSupported
    /\ pc = "idle"
    /\ VisibleCurrent
    /\ state.isClient
    /\ state.hasBeenVisible
    /\ props.fallback = Elem("fallback", 0)
    /\ output = VisibleChildren

(***************************************************************************)
(* Properties of Await.                                                    *)
(***************************************************************************)
AwaitLoading == DefaultNull(props.loading)
AwaitContent(v) ==
    IF props.children.fn THEN Result("children", 0, <<v>>) ELSE Elem("children", 0)
AwaitErrorSlot(e) ==
    IF props.error = NoProp
        THEN NodeNull
        ELSE IF props.error.fn THEN Result("error", 0, <<e>>) ELSE Elem("error", 0)
\* The thenable that is the present input.
AwaitedThenable == thenables[props.promise.id]
\* Every queued reaction has run and its state update has been rendered.
AwaitCurrent == mounted /\ pc = "idle" /\ ~pending /\ jobs = <<>>

C19_StaleResultDiscarded ==
    [][ (comp = "Await" /\ mounted /\ jobs # <<>> /\ jobs' = Tail(jobs)) =>
            /\ (~props.promise.thenable \/ Head(jobs).thenable # props.promise.id) =>
                   /\ state' = state
                   /\ output' = output
                   /\ pending' = pending
            /\ state' # state =>
                   /\ Head(jobs).thenable = props.promise.id
                   /\ state'.status = AwaitedThenable.status
                   /\ state'.value = AwaitedThenable.value
      ]_vars

C19_Witness ==
    /\ comp = "Await"
    /\ mounted
    /\ props.promise = Thenable(2)
    /\ state.generation = 2
    /\ state.status = "pending"
    /\ thenables[2].status = "pending"
    /\ jobs = <<Job(1, 1, "fulfilled", ResolutionOf(1))>>
    /\ props.loading = Elem("loading", 0)
    /\ output = Elem("loading", 0)

\* C20: the render that replaces the input of a mounted Await by a
\* different thenable outputs `loading` and leaves the resolution state
\* pending, also when the earlier input had fulfilled or rejected; and the
\* output stays `loading` in every step in which the present thenable stays
\* pending.
C20_ReplacementLoads ==
    [][ (comp = "Await" /\ mounted /\ mounted' /\ props'.promise.thenable) =>
            /\ props'.promise # props.promise =>
                   /\ output' = AwaitLoading'
                   /\ state'.status = "pending"
                   /\ state'.input = props'.promise
            /\ (props' = props /\ output = AwaitLoading
                    /\ AwaitedThenable'.status = "pending") => output' = AwaitLoading
      ]_vars

C20_Witness ==
    /\ comp = "Await"
    /\ mounted
    /\ props.promise = Thenable(2)
    /\ state.generation = 3
    /\ thenables[1].status = "fulfilled"
    /\ thenables[2].status = "pending"
    /\ jobs = <<>>
    /\ props.loading = Elem("loading", 0)
    /\ output = Elem("loading", 0)

\* C21: while the input of a mounted Await is not a thenable, the output is
\* the content for the input value (the callback applied to it, or the
\* static content) from the first render on; the render that receives such
\* an input never outputs `loading`, whatever reactions of earlier
\* thenables are still queued or run afterwards.
C21_PlainValueSynchronous ==
    (comp = "Await" /\ mounted /\ ~props.promise.thenable) =>
        /\ output = AwaitContent(props.promise.value)
        /\ output # AwaitLoading
        /\ state.status = "fulfilled"

C21_Witness ==
    /\ comp = "Await"
    /\ mounted
    /\ state.generation = 1
    /\ props.promise = Plain(JSStr("Direct value"))
    /\ props.loading = Elem("loading", 0)
    /\ props.children = FnProp("children", 0)
    /\ output = Result("children", 0, <<JSStr("Direct value")>>)

\* The flag that decides between content and fallback: hasBeenVisible under
\* once = true, isVisible under once = false.
VisibleGate == IF VisibleOnce THEN state.hasBeenVisible ELSE state.isVisible

\* C26: as long as the mount effect has not run (isClient is false) the
\* output of a mounted Visible is its children without the wrapper,
\* whatever fallback, once and the support of IntersectionObserver are; an
\* output that is the wrapped fallback occurs only with isClient true and
\* IntersectionObserver supported, and a render with the present props and
\* hook values outputs it exactly when, in addition, the gating flag is
\* false.
C26_ChildrenBeforeMount ==
    (comp = "Visible" /\ mounted) =>
        /\ ~state.isClient => output = VisibleChildren
        /\ output = VisibleFallback => (state.isClient /\ isSupported)
        /\ VisibleCurrent =>
               (output = VisibleFallback
                    <=> (state.isClient /\ isSupported /\ ~VisibleGate))

C26_Witness ==
    /\ comp = "Visible"
    /\ mounted
    /\ pc = "effects"
    /\ ~state.isClient
    /\ isSupported
    /\ ~VisibleOnce
    /\ props.fallback = Elem("fallback", 0)
    /\ observers = {}
    /\ output = VisibleChildren

\* C27: a notification with isIntersecting = true leaves hasBeenVisible set
\* whatever `once` is, so isVisible is never set without hasBeenVisible; and
\* the render that follows a change of `once` from false to true, made
\* after the element intersected and left (hasBeenVisible set, isVisible
\* not), outputs the content although the element is not intersecting.
C27_StickyFlagWhateverOnce ==
    [][ (comp = "Visible" /\ mounted /\ mounted') =>
            /\ (Len(calls') = Len(calls) + 1 /\ calls'[Len(calls')].args[1].b)
                   => state'.hasBeenVisible
            /\ state'.isVisible => state'.hasBeenVisible
            /\ (pc = "render" /\ pc' = "effects" /\ isSupported /\ VisibleOnce
                    /\ state.hasBeenVisible /\ ~state.isVisible)
                   => output' = VisibleContent
      ]_vars

\* `once` has just changed from false to true: the committed output is still
\* the fallback of the last render under once = false, the observer is still
\* the one created under once = false, and it has reported true, then false.
C27_Witness ==
    /\ comp = "Visible"
    /\ mounted
    /\ isSupported
    /\ pc = "render"
    /\ ~pending
    /\ VisibleOnce
    /\ state.hasBeenVisible
    /\ ~state.isVisible
    /\ calls = <<VisibilityCall(JSUndefined, TRUE), VisibilityCall(JSUndefined, FALSE)>>
    /\ \E o \in observers : observers = {o} /\ o.id = 1 /\ o.once = JSBool(FALSE)
    /\ props.fallback = Elem("fallback", 0)
    /\ output = VisibleFallback

(***************************************************************************)
(* Further properties of Once.                                             *)
(***************************************************************************)
OnceEmpty == {NodeNull, NodeUndefined}

\* C30: a mounted Once has its `rendered` flag set, whatever it cached; when
\* the children of its first render were null or undefined, every later
\* render of that instance leaves the cache alone and outputs the same
\* nothing, whatever children it is given; the first render of a remounted
\* instance starts from a cleared flag and captures the children it is
\* given.
C30_RenderedFlag ==
    [][ comp = "Once" =>
            /\ mounted' => state'.cachedRef.rendered
            /\ (mounted /\ mounted' /\ output \in OnceEmpty) =>
                   /\ state'.cachedRef = state.cachedRef
                   /\ output' = output
            /\ ~mounted' => state'.cachedRef = OnceInitialRef
            /\ (~mounted /\ mounted') =>
                   state'.cachedRef = [rendered |-> TRUE, content |-> props'.children]
      ]_vars

C30_Witness ==
    /\ comp = "Once"
    /\ mounted
    /\ state.cachedRef = [rendered |-> TRUE, content |-> NodeNull]
    /\ props.children = Elem("children", 1)
    /\ output = NodeNull

(***************************************************************************)
(* If and Show compared.                                                   *)
(***************************************************************************)
\* The props of Show that correspond to the props p of If, and back.
AsShowProps(p) == [when |-> p.condition, children |-> p.children, fallback |-> p.fallback]
AsIfProps(p) == [condition |-> p.when, children |-> p.children, fallback |-> p.fallback]

\* C29: what a render of If returned, and the callback invocations it made,
\* are those of Show for the props with `when` in the place of `condition`
\* (same children, node or callback, same fallback), and the other way
\* round, for every condition value.
C29_IfEqualsShow ==
    /\ (GateRendered /\ comp = "If") =>
           Returned(output, calls) = Show(AsShowProps(props))
    /\ (GateRendered /\ comp = "Show") =>
           Returned(output, calls) = If(AsIfProps(props))

C29_Witness ==
    /\ GateRendered
    /\ comp = "If"
    /\ props.condition = JSStr("a")
    /\ props.children = FnProp("children", 0)
    /\ props.fallback = Elem("fallback", 0)
    /\ Show(AsShowProps(props)).calls = <<Invocation(props.children, <<JSStr("a")>>)>>
    /\ calls = <<Invocation(props.children, <<JSStr("a")>>)>>
    /\ output = Result("children", 0, <<JSStr("a")>>)

(***************************************************************************)
(* Further properties of Switch.                                           *)
(***************************************************************************)
\* The children of the Switch that are Match or Default elements.
SwitchOwnChildren ==
    SelectSeq(props.children, LAMBDA c : isMatchElement(c) \/ isDefaultElement(c))

\* C24: one render of Switch invokes at most one callback: that of the
\* first Match whose `when` is truthy, once and with its `when`, when the
\* children of that Match are a callback, and none otherwise, so the
\* callback of no Match after the selected one is invoked; children that
\* are neither Match nor Default (null, text, host elements, other
\* components, with a truthy `when` prop or not) change neither the output
\* nor the invocations.
C24_SingleScan ==
    SwitchRendered =>
        /\ Len(calls) <= 1
        /\ calls # <<>> =>
               /\ TruthyMatches # {}
               /\ calls = <<[id |-> "match", i |-> Least(TruthyMatches),
                             args |-> <<props.children[Least(TruthyMatches)].props.when>>]>>
        /\ (TruthyMatches # {}
                /\ props.children[Least(TruthyMatches)].props.children.fn) => calls # <<>>
        /\ output.id \notin {"text", "div", "other"}
        /\ Returned(output, calls) = Switch([props EXCEPT !.children = SwitchOwnChildren])

C24_Witness ==
    /\ SwitchRendered
    /\ Len(props.children) = 3
    /\ props.children[1] = SwitchChildOther(JSBool(TRUE), 1)
    /\ props.children[2] = MatchElement(JSStr("a"), TRUE, 2)
    /\ props.children[3] = MatchElement(JSBool(TRUE), TRUE, 3)
    /\ calls = <<[id |-> "match", i |-> 2, args |-> <<JSStr("a")>>]>>
    /\ output = Result("match", 2, <<JSStr("a")>>)

(***************************************************************************)
(* Further properties of ErrorBoundary.                                    *)
(***************************************************************************)
\* C25: once getDerivedStateFromError has captured the thrown value v,
\* whatever v is (an Error, or null), the state holds v and the render that
\* follows in the same pass returns the fallback for v and not the
\* children.
C25_AnyThrownValueRendersFallback ==
    comp = "ErrorBoundary" =>
        /\ (pc = "scheduled" /\ didCapture) => state.error = thrown
        /\ (didCapture /\ pc \notin {"scheduled", "capture"}) =>
               wip = EBFallbackOutput(thrown)

\* C28: a tripped boundary becomes clear only by a call of reset or by the
\* automatic reset of componentDidUpdate; the automatic reset happens only
\* in the commit of a render by the parent (the one that brought the other
\* resetKey), never in the commit of the render that an automatic reset
\* itself scheduled, so one change of resetKey resets at most once and a
\* boundary whose children throw again stays tripped; componentDidUpdate
\* leaves the state of a clear boundary as it is.
C28_OneResetPerKeyChange ==
    [][ comp = "ErrorBoundary" =>
            /\ (Tripped /\ ~Tripped') =>
                   \/ pc = "idle" /\ trigger' = "reset"
                   \/ pc = "didUpdate" /\ trigger = "props"
            /\ (pc = "didUpdate" /\ ~Tripped) => state' = state /\ pending' = pending
      ]_vars

(***************************************************************************)
(* Properties of nested ErrorBoundaries.                                   *)
(***************************************************************************)
NestedTripped(b) == ToBoolean(state[b].error)
NestedFallback(b, e) ==
    IF props[b].fallback.fn
        THEN Result(props[b].fallback.id, 0, <<e, ResetFn>>)
        ELSE Elem(props[b].fallback.id, 0)
OuterThrows == \E i \in 1..Len(props.siblings) : props.siblings[i].throws
InnerThrows == \E i \in 1..Len(props.children) : props.children[i].throws

\* C22: the inner boundary holds only errors thrown below it and the outer
\* boundary only errors thrown outside the inner one, so a throw below the
\* inner boundary never trips the outer one.  Once a pass is committed: a
\* clear outer boundary has all its children as output, the inner boundary
\* among them, which shows its fallback when a component below it threw and
\* its children otherwise; and when a component outside the inner boundary
\* throws, the outer boundary is tripped with that error and shows its
\* fallback, the inner one not being rendered.
C22_NearestBoundaryTraps ==
    comp = "Nested" =>
        /\ state.inner.error \in {JSNull, InnerError}
        /\ state.outer.error \in {JSNull, OuterError}
        /\ pc = "captureInner" => thrown.inner = InnerError
        /\ pc = "capture" => thrown.outer = OuterError
        /\ pc # "crashed"
        /\ (pc = "idle" /\ ~NestedTripped("outer")) =>
               /\ ~OuterThrows
               /\ output.outer = ChildrenOutput(Len(props.siblings))
               /\ InnerThrows =>
                      /\ state.inner.error = InnerError
                      /\ output.inner = NestedFallback("inner", InnerError)
               /\ ~NestedTripped("inner") =>
                      output.inner = ChildrenOutput(Len(props.children))
        /\ (pc = "idle" /\ OuterThrows) =>
               /\ state.outer.error = OuterError
               /\ output.outer = NestedFallback("outer", OuterError)
               /\ output.inner = NodeUndefined

\* The first nested test: the component below the inner boundary throws,
\* the inner fallback and the other children of the outer boundary are
\* shown.
C22_Witness ==
    /\ comp = "Nested"
    /\ pc = "idle"
    /\ trigger = "mount"
    /\ props.at = 1
    /\ ~OuterThrows
    /\ props.children[1] = ThrowError(InnerError)
    /\ state = [outer |-> InitialState, inner |-> [error |-> InnerError]]
    /\ output = [outer |-> ChildrenOutput(MaxSiblings),
                 inner |-> NestedFallback("inner", InnerError)]

(***************************************************************************)
(* Properties of Split.                                                    *)
(***************************************************************************)
SplitRendered == pc = "done" /\ comp = "Split"
\* The positions of the separator in the string, and the k-th of them in
\* ascending order (0 before the first, one past the end after the last).
SeparatorPositions ==
    {i \in 1..Len(props.string.chars) : props.string.chars[i] = props.separator}
SeparatorPosition(k) ==
    IF k = 0
        THEN 0
        ELSE IF k > Cardinality(SeparatorPositions)
                 THEN Len(props.string.chars) + 1
                 ELSE CHOOSE i \in SeparatorPositions :
                          Cardinality({h \in SeparatorPositions : h < i}) = k - 1
\* The substring between the (k-1)-th and the k-th separator occurrence.
Between(k) ==
    Cat(SubSeq(props.string.chars, SeparatorPosition(k - 1) + 1, SeparatorPosition(k) - 1))
\* The parts the callback was called with, in the order of the calls.
PartsPassed == [j \in 1..Len(calls) |-> calls[j].args[1].s]

\* C23: for a null, undefined or empty string Split outputs the fallback
\* and calls nothing.  Otherwise, for a string with n occurrences of the
\* separator: with keepSeparator unset the callback gets n + 1 parts, the
\* k-th being the substring between the (k-1)-th and the k-th occurrence
\* (the empty string when they are adjacent or at an end of the string);
\* with keepSeparator set it gets 2n + 1 parts, these substrings at the odd
\* places and the separator at each even place.
C23_SplitParts ==
    SplitRendered =>
        IF props.string.v \in {JSNull, JSUndefined, JSStr("")}
            THEN /\ output = (IF props.fallback = NodeUndefined THEN NodeNull
                                                                ELSE props.fallback)
                 /\ calls = <<>>
            ELSE LET n == Cardinality(SeparatorPositions)
                 IN  /\ output.k = "list"
                     /\ Len(output.items) = Len(calls)
                     /\ ~props.keepSeparator =>
                            PartsPassed = [k \in 1..(n + 1) |-> Between(k)]
                     /\ props.keepSeparator =>
                            PartsPassed = [j \in 1..(2 * n + 1) |->
                                              IF j % 2 = 1 THEN Between((j + 1) \div 2)
                                                           ELSE props.separator]

\* "a,,b" split at ",": the parts are "a", "" and "b".
C23_Witness ==
    /\ SplitRendered
    /\ props.string.v = JSStr("a,,b")
    /\ props.separator = ","
    /\ ~props.keepSeparator
    /\ PartsPassed = <<"a", "", "b">>
    /\ Len(output.items) = 3

====
